---- MODULE Spec2Model ----
(***************************************************************************)
(* Lecture Q&A board (k258468/chatApp): the local store                    *)
(* (src/src/lib/localStore.ts), the data access facade and the remote      *)
(* store calls (src/src/lib/data.ts) and the handlers of src/src/App.vue.  *)
(*                                                                         *)
(* The local store keeps one JSON document in localStorage; every          *)
(* operation is loadStore -> mutate -> saveStore.  The variable `storage`  *)
(* is that document as it sits in localStorage.                            *)
(***************************************************************************)
EXTENDS Integers, Sequences, FiniteSets, Bags, TLC

VARIABLES
  storage,   \* localStorage["lecture-qna-store"]: [kind, doc]
  idCount,   \* number of ids makeId() has handed out (ids are never reused)
  ret,       \* the last call: its name, its target and what it returned or threw
  streak,    \* consecutive identical reaction toggles, with the state before the first
  env,       \* the build's configuration: VITE_USE_LOCAL and whether getSupabase() has a client
  db,        \* the Supabase project: auth users, the client's session and the tables
  calls,     \* the remote reaction calls in flight, each with its position
  app        \* App.vue's refs: currentUser, joinedRooms, profile, questions, error

vars == <<storage, idCount, ret, streak, env, db, calls, app>>

----------------------------------------------------------------------------
(* Bounds of the model *)
MaxIds == 2        \* makeId() calls (questions + answers ever created)
MaxStreak == 3     \* consecutive identical toggles that are tracked
MaxXp == 13        \* addXp is not called beyond this many points
XpUnit == 2        \* xp is held in XpUnit-ths of a point
MaxRooms == 2      \* rooms ever created
MaxCalls == 2      \* remote reaction calls in flight at once
MaxRows == 3
MaxLikes == 1       \* reaction rows ever inserted in the remote tables

(* Input domains *)
Users == {"u1", "u2"}
Types == {"like", "thanks"}          \* keyof Reactions
RoomIds == {"r1"}
Undefined == "undefined"             \* JS undefined for an optional string

----------------------------------------------------------------------------
(* Results of calls *)
Ok(v) == [kind |-> "ok", value |-> v]
Threw(msg) == [kind |-> "throw", value |-> msg]
\* JS null, where an object may stand
Null == [null |-> TRUE]

----------------------------------------------------------------------------
(* JS array helpers, 1-based; findIndex gives 0 where JS gives -1 *)
firstTrue(flags) ==
  IF \E i \in 1..Len(flags) : flags[i]
  THEN CHOOSE i \in 1..Len(flags) : flags[i] /\ \A j \in 1..(i - 1) : ~flags[j]
  ELSE 0

\* s.findIndex((entry) => entry.id === id)
findIndexById(s, id) == firstTrue([i \in 1..Len(s) |-> s[i].id = id])

splice1(s, i) == SubSeq(s, 1, i - 1) \o SubSeq(s, i + 1, Len(s))

unshift(s, x) == <<x>> \o s

push(s, x) == Append(s, x)

Max(a, b) == IF a >= b THEN a ELSE b

(* The reaction tables are arrays of rows that hold nothing but their key and
   whose order no code reads: they are kept as bags of rows (a row may occur
   more than once).  push adds one copy, splice(findIndex(..), 1) removes one
   copy, filter keeps the rows that pass. *)
bagPush(b, row) == b (+) SetToBag({row})

bagSplice(b, row) == b (-) SetToBag({row})

bagKeep(b, rows) == [r \in rows |-> b[r]]

\* .filter((entry) => entry.questionId !== questionId)
withoutQuestion(b, questionId) ==
  bagKeep(b, {r \in DOMAIN b : r.questionId # questionId})

\* .filter((entry) => !answerIds.has(entry.answerId))
withoutAnswers(b, ids) == bagKeep(b, {r \in DOMAIN b : r.answerId \notin ids})

----------------------------------------------------------------------------
(* localStore.ts *)
baseReactions == [like |-> 0, thanks |-> 0]

baseAnswers == <<>>

NoProfiles == [u \in {} |-> 0]

EmptyStore ==
  [rooms |-> <<>>, questions |-> <<>>, profiles |-> NoProfiles, users |-> <<>>,
   memberships |-> <<>>, questionReactions |-> EmptyBag,
   answerReactions |-> EmptyBag, currentUserId |-> Undefined]

\* parsed.f ?? dflt
orElse(parsed, f, dflt) == IF f \in DOMAIN parsed THEN parsed[f] ELSE dflt

loadStoreResetOnAnyMissing(raw) ==
  IF raw.kind = "object"
     /\ {"rooms", "questions", "users", "memberships", "questionReactions",
         "answerReactions"} \subseteq DOMAIN raw.doc
  THEN [rooms |-> raw.doc.rooms, questions |-> raw.doc.questions,
        profiles |-> orElse(raw.doc, "profiles", NoProfiles),
        users |-> raw.doc.users, memberships |-> raw.doc.memberships,
        questionReactions |-> raw.doc.questionReactions,
        answerReactions |-> raw.doc.answerReactions,
        currentUserId |-> orElse(raw.doc, "currentUserId", Undefined)]
  ELSE EmptyStore

loadStore(raw) ==
  IF raw.kind = "missing" THEN EmptyStore                 \* !raw
  ELSE IF raw.kind \in {"unparseable", "null"} THEN EmptyStore   \* catch
  ELSE
    LET parsed == raw.doc
        given == orElse(parsed, "profiles", NoProfiles)
        profiles ==
          IF /\ "profile" \in DOMAIN parsed
             /\ "currentUserId" \in DOMAIN parsed
             /\ parsed.currentUserId \notin DOMAIN given
          THEN given @@ (parsed.currentUserId :> parsed.profile)
          ELSE given
    IN [rooms |-> orElse(parsed, "rooms", <<>>),
        questions |-> orElse(parsed, "questions", <<>>),
        profiles |-> profiles,
        users |-> orElse(parsed, "users", <<>>),
        memberships |-> orElse(parsed, "memberships", <<>>),
        questionReactions |-> orElse(parsed, "questionReactions", EmptyBag),
        answerReactions |-> orElse(parsed, "answerReactions", EmptyBag),
        currentUserId |-> orElse(parsed, "currentUserId", Undefined)]

\* JSON.stringify leaves out a property whose value is undefined
saveStore(store) ==
  LET keep == IF store.currentUserId = Undefined
              THEN DOMAIN store \ {"currentUserId"}
              ELSE DOMAIN store
  IN [kind |-> "object", doc |-> [f \in keep |-> store[f]]]

hasAnswer(question, answerId) ==
  \E k \in 1..Len(question.answers) : question.answers[k].id = answerId

\* the first question of the loop `for (const question of store.questions)`
\* whose answers hold answerId
findQuestionOfAnswer(questions, answerId) ==
  firstTrue([i \in 1..Len(questions) |-> hasAnswer(questions[i], answerId)])

\* createQuestion if it put the question at the end of the list
createQuestionAtEnd(raw, id, roomId, text, ownerId) ==
  LET store == loadStore(raw)
      question == [id |-> id, roomId |-> roomId, text |-> text, status |-> "open",
                   ownerId |-> ownerId, reactions |-> baseReactions,
                   answers |-> baseAnswers]
  IN [storage |-> saveStore([store EXCEPT !.questions = push(@, question)]),
      result |-> Ok(question)]

localApi_createQuestion(raw, id, roomId, text, ownerId) ==
  LET store == loadStore(raw)
      question == [id |-> id, roomId |-> roomId, text |-> text, status |-> "open",
                   ownerId |-> ownerId, reactions |-> baseReactions,
                   answers |-> baseAnswers]
  IN [storage |-> saveStore([store EXCEPT !.questions = unshift(@, question)]),
      result |-> Ok(question)]

createAnswerWithoutParent(raw, id, questionId, text, role, ownerId) ==
  LET store == loadStore(raw)
      ti == findIndexById(store.questions, questionId)
      answer == [id |-> id, questionId |-> questionId, text |-> text, role |-> role,
                 ownerId |-> ownerId, reactions |-> baseReactions]
  IN IF ti = 0
     THEN [storage |-> raw, result |-> Ok(answer)]
     ELSE [storage |-> saveStore([store EXCEPT !.questions[ti].answers = push(@, answer)]),
           result |-> Ok(answer)]

\* createAnswer if it saved over a document loaded before the reactions on
\* questions were stored
createAnswerOnStaleDocument(raw, id, questionId, text, role, ownerId) ==
  LET store == loadStore(raw)
      ti == findIndexById(store.questions, questionId)
      answer == [id |-> id, questionId |-> questionId, text |-> text, role |-> role,
                 ownerId |-> ownerId, reactions |-> baseReactions]
  IN IF ti = 0
     THEN [storage |-> raw, result |-> Threw("question not found")]
     ELSE [storage |-> saveStore([store EXCEPT !.questions[ti].answers = push(@, answer),
                                               !.questionReactions = EmptyBag]),
           result |-> Ok(answer)]

localApi_createAnswer(raw, id, questionId, text, role, ownerId) ==
  LET store == loadStore(raw)
      ti == findIndexById(store.questions, questionId)
      answer == [id |-> id, questionId |-> questionId, text |-> text, role |-> role,
                 ownerId |-> ownerId, reactions |-> baseReactions]
  IN IF ti = 0
     THEN [storage |-> raw, result |-> Threw("question not found")]
     ELSE [storage |-> saveStore([store EXCEPT !.questions[ti].answers = push(@, answer)]),
           result |-> Ok(answer)]

addQuestionReactionNoDedupe(raw, questionId, type, userId) ==
  LET store == loadStore(raw)
      ti == findIndexById(store.questions, questionId)
      row == [questionId |-> questionId, userId |-> userId, type |-> type]
  IN IF ti = 0
     THEN [storage |-> raw, result |-> Ok(Null)]
     ELSE LET next == [store EXCEPT !.questions[ti].reactions[type] = @ + 1,
                                    !.questionReactions = bagPush(@, row)]
          IN [storage |-> saveStore(next), result |-> Ok(next.questions[ti])]

addQuestionReactionNoCount(raw, questionId, type, userId) ==
  LET store == loadStore(raw)
      ti == findIndexById(store.questions, questionId)
      row == [questionId |-> questionId, userId |-> userId, type |-> type]
  IN IF ti = 0
     THEN [storage |-> raw, result |-> Ok(Null)]
     ELSE LET next ==
                IF BagIn(row, store.questionReactions)
                THEN [store EXCEPT !.questionReactions = bagSplice(@, row)]
                ELSE [store EXCEPT !.questions[ti].reactions[type] = @ + 1,
                                   !.questionReactions = bagPush(@, row)]
          IN [storage |-> saveStore(next), result |-> Ok(next.questions[ti])]

localApi_addQuestionReaction(raw, questionId, type, userId) ==
  LET store == loadStore(raw)
      ti == findIndexById(store.questions, questionId)
      row == [questionId |-> questionId, userId |-> userId, type |-> type]
  IN IF ti = 0
     THEN [storage |-> raw, result |-> Ok(Null)]
     ELSE LET next ==
                IF BagIn(row, store.questionReactions)      \* existingIndex >= 0
                THEN [store EXCEPT !.questionReactions = bagSplice(@, row),
                                   !.questions[ti].reactions[type] = Max(0, @ - 1)]
                ELSE [store EXCEPT !.questions[ti].reactions[type] = @ + 1,
                                   !.questionReactions = bagPush(@, row)]
          IN [storage |-> saveStore(next), result |-> Ok(next.questions[ti])]

localApi_addAnswerReaction(raw, answerId, type, userId) ==
  LET store == loadStore(raw)
      row == [answerId |-> answerId, userId |-> userId, type |-> type]
      qi == findQuestionOfAnswer(store.questions, answerId)
  IN IF qi = 0
     THEN [storage |-> raw, result |-> Ok(Null)]
     ELSE LET ai == findIndexById(store.questions[qi].answers, answerId)
              next ==
                IF BagIn(row, store.answerReactions)        \* existingIndex >= 0
                THEN [store EXCEPT !.answerReactions = bagSplice(@, row),
                                   !.questions[qi].answers[ai].reactions[type] = Max(0, @ - 1)]
                ELSE [store EXCEPT !.questions[qi].answers[ai].reactions[type] = @ + 1,
                                   !.answerReactions = bagPush(@, row)]
          IN [storage |-> saveStore(next), result |-> Ok(next.questions[qi].answers[ai])]

answerIds(question) == {question.answers[k].id : k \in 1..Len(question.answers)}

deleteQuestionKeepAnswerReactions(raw, questionId) ==
  LET store == loadStore(raw)
      ti == findIndexById(store.questions, questionId)
  IN IF ti = 0
     THEN [storage |-> raw, result |-> Ok(FALSE)]
     ELSE [storage |-> saveStore(
             [store EXCEPT !.questions = splice1(@, ti),
                           !.questionReactions =
                              withoutQuestion(@, questionId)]),
           result |-> Ok(TRUE)]

localApi_deleteQuestion(raw, questionId) ==
  LET store == loadStore(raw)
      ti == findIndexById(store.questions, questionId)
  IN IF ti = 0
     THEN [storage |-> raw, result |-> Ok(FALSE)]
     ELSE LET removed == store.questions[ti]
              ids == answerIds(removed)
              s1 == [store EXCEPT !.questions = splice1(@, ti),
                                  !.questionReactions =
                                     withoutQuestion(@, questionId)]
              s2 == IF Len(removed.answers) > 0
                    THEN [s1 EXCEPT !.answerReactions =
                                       withoutAnswers(@, ids)]
                    ELSE s1
          IN [storage |-> saveStore(s2), result |-> Ok(TRUE)]

\* deleteAnswer if it left the reactions of the answer in the store
deleteAnswerKeepReactions(raw, answerId) ==
  LET store == loadStore(raw)
      qi == findQuestionOfAnswer(store.questions, answerId)
  IN IF qi = 0
     THEN [storage |-> raw, result |-> Ok(FALSE)]
     ELSE LET ai == findIndexById(store.questions[qi].answers, answerId)
          IN [storage |-> saveStore([store EXCEPT !.questions[qi].answers = splice1(@, ai)]),
              result |-> Ok(TRUE)]

localApi_deleteAnswer(raw, answerId) ==
  LET store == loadStore(raw)
      qi == findQuestionOfAnswer(store.questions, answerId)
  IN IF qi = 0
     THEN [storage |-> raw, result |-> Ok(FALSE)]
     ELSE LET ai == findIndexById(store.questions[qi].answers, answerId)
          IN [storage |-> saveStore(
                [store EXCEPT !.questions[qi].answers = splice1(@, ai),
                              !.answerReactions =
                                 withoutAnswers(@, {answerId})]),
              result |-> Ok(TRUE)]

----------------------------------------------------------------------------
(* localStore.ts: listQuestions *)

localApi_listQuestions(raw, roomId) ==
  LET store == loadStore(raw)
      inRoom(question) == question.roomId = roomId
  IN [storage |-> raw, result |-> Ok(SelectSeq(store.questions, inRoom))]

----------------------------------------------------------------------------
(* localStore.ts: status and text updates *)

\* updateQuestionStatus if resolved were terminal
updateQuestionStatusResolvedTerminal(raw, questionId, status) ==
  LET store == loadStore(raw)
      qi == findIndexById(store.questions, questionId)
  IN IF qi = 0
     THEN [storage |-> raw, result |-> Ok(Null)]
     ELSE LET target == [store.questions[qi] EXCEPT
                           !.status = IF @ = "resolved" THEN @ ELSE status]
          IN [storage |-> saveStore([store EXCEPT !.questions[qi] = target]),
              result |-> Ok(target)]

localApi_updateQuestionStatus(raw, questionId, status) ==
  LET store == loadStore(raw)
      qi == findIndexById(store.questions, questionId)
  IN IF qi = 0
     THEN [storage |-> raw, result |-> Ok(Null)]
     ELSE LET target == [store.questions[qi] EXCEPT !.status = status]
          IN [storage |-> saveStore([store EXCEPT !.questions[qi] = target]),
              result |-> Ok(target)]

localApi_updateQuestionText(raw, questionId, text) ==
  LET store == loadStore(raw)
      qi == findIndexById(store.questions, questionId)
  IN IF qi = 0
     THEN [storage |-> raw, result |-> Ok(Null)]
     ELSE LET target == [store.questions[qi] EXCEPT !.text = text]
          IN [storage |-> saveStore([store EXCEPT !.questions[qi] = target]),
              result |-> Ok(target)]

localApi_updateAnswerText(raw, answerId, text) ==
  LET store == loadStore(raw)
      qi == findQuestionOfAnswer(store.questions, answerId)
  IN IF qi = 0
     THEN [storage |-> raw, result |-> Ok(Null)]
     ELSE LET ai == findIndexById(store.questions[qi].answers, answerId)
              target == [store.questions[qi].answers[ai] EXCEPT !.text = text]
          IN [storage |-> saveStore([store EXCEPT !.questions[qi].answers[ai] = target]),
              result |-> Ok(target)]

----------------------------------------------------------------------------
(* localStore.ts: accounts, session and profile *)

\* email.toLowerCase(), on the addresses of the model
toLowerCase(email) == IF email = "A@x" THEN "a@x" ELSE email

\* store.users.find((user) => user.email.toLowerCase() === email.toLowerCase())
findUserByEmail(users, email) ==
  firstTrue([i \in 1..Len(users) |-> toLowerCase(users[i].email) = toLowerCase(email)])

\* const { password: _password, ...account } = user
account(user) == [f \in DOMAIN user \ {"password"} |-> user[f]]

zeroProfile == [xp |-> 0, level |-> 0, avatarStage |-> 0]

\* if (!store.profiles[id]) store.profiles[id] = { xp: 0, level: 0, avatarStage: 0 }
ensureProfile(profiles, id) ==
  IF id \in DOMAIN profiles THEN profiles ELSE profiles @@ (id :> zeroProfile)

(* xp is a JS number; the model holds it in XpUnit-ths of a point, so that
   amounts and totals that are no whole numbers occur *)
levelForXp(xp) == xp \div XpUnit                       \* Math.floor(xp)

avatarForLevel(level) ==
  IF level >= 12 THEN 3
  ELSE IF level >= 7 THEN 2
  ELSE IF level >= 3 THEN 1
  ELSE 0

localApi_setCurrentUserId(raw, userId) ==
  LET store == loadStore(raw)
      s1 == [store EXCEPT !.currentUserId = userId]
      s2 == IF userId # Undefined
            THEN [s1 EXCEPT !.profiles = ensureProfile(@, userId)]
            ELSE s1
  IN [storage |-> saveStore(s2), result |-> Ok(Undefined)]

localApi_registerUser(raw, id, name, role, email, password) ==
  LET store == loadStore(raw)
      ei == findUserByEmail(store.users, email)
  IN IF ei # 0
     THEN LET existing == store.users[ei]
          IN [storage |-> saveStore([store EXCEPT !.currentUserId = existing.id,
                                                  !.profiles = ensureProfile(@, existing.id)]),
              result |-> Ok(account(existing))]
     ELSE LET user == [id |-> id, name |-> name, role |-> role, email |-> email,
                       password |-> password]
          IN [storage |-> saveStore([store EXCEPT !.users = push(@, user),
                                                  !.currentUserId = id,
                                                  !.profiles = (id :> zeroProfile) @@ @]),
              result |-> Ok(account(user))]

localApi_loginUser(raw, email, password) ==
  LET store == loadStore(raw)
      ui == findUserByEmail(store.users, email)
  IN IF ui = 0 \/ store.users[ui].password # password
     THEN [storage |-> raw, result |-> Ok(Null)]
     ELSE LET user == store.users[ui]
          IN [storage |-> saveStore([store EXCEPT !.currentUserId = user.id,
                                                  !.profiles = ensureProfile(@, user.id)]),
              result |-> Ok(account(user))]

localApi_logoutUser(raw) ==
  [storage |-> saveStore([loadStore(raw) EXCEPT !.currentUserId = Undefined]),
   result |-> Ok(Undefined)]

localApi_getCurrentUser(raw) ==
  LET store == loadStore(raw)
      ui == findIndexById(store.users, store.currentUserId)
  IN IF store.currentUserId = Undefined \/ ui = 0
     THEN [storage |-> raw, result |-> Ok(Null)]
     ELSE [storage |-> raw, result |-> Ok(account(store.users[ui]))]

localApi_getProfile(raw) ==
  LET store == loadStore(raw)
  IN [storage |-> raw,
      result |-> Ok(IF store.currentUserId \in DOMAIN store.profiles
                    THEN store.profiles[store.currentUserId]
                    ELSE zeroProfile)]

addXpLevelBeforeClamp(raw, amount) ==
  LET store == loadStore(raw)
      cur == store.currentUserId
      old == IF cur \in DOMAIN store.profiles THEN store.profiles[cur] ELSE zeroProfile
      level == levelForXp(old.xp + amount)
      profile == [xp |-> Max(0, old.xp + amount), level |-> level,
                  avatarStage |-> avatarForLevel(level)]
  IN IF cur = Undefined
     THEN [storage |-> raw, result |-> Ok(zeroProfile)]
     ELSE [storage |-> saveStore([store EXCEPT !.profiles = (cur :> profile) @@ @]),
           result |-> Ok(profile)]

localApi_addXp(raw, amount) ==
  LET store == loadStore(raw)
      cur == store.currentUserId
      old == IF cur \in DOMAIN store.profiles THEN store.profiles[cur] ELSE zeroProfile
      xp == Max(0, old.xp + amount)
      level == levelForXp(xp)
      profile == [xp |-> xp, level |-> level, avatarStage |-> avatarForLevel(level)]
  IN IF cur = Undefined
     THEN [storage |-> raw, result |-> Ok(zeroProfile)]
     ELSE [storage |-> saveStore([store EXCEPT !.profiles = (cur :> profile) @@ @]),
           result |-> Ok(profile)]

\* { ...store.users[userIndex], [field]: value }
withField(user, field, value) == (field :> value) @@ user

localApi_updateAvatar(raw, avatarUrl) ==
  LET store == loadStore(raw)
      userIndex == findIndexById(store.users, store.currentUserId)
      user == withField(store.users[userIndex], "avatarUrl", avatarUrl)
  IN IF store.currentUserId = Undefined \/ userIndex = 0
     THEN [storage |-> raw, result |-> Threw("user not found")]
     ELSE [storage |-> saveStore([store EXCEPT !.users[userIndex] = user]),
           result |-> Ok(account(user))]

localApi_updateDisplayName(raw, displayName) ==
  LET store == loadStore(raw)
      userIndex == findIndexById(store.users, store.currentUserId)
      user == withField(store.users[userIndex], "name", displayName)
  IN IF store.currentUserId = Undefined \/ userIndex = 0
     THEN [storage |-> raw, result |-> Threw("user not found")]
     ELSE [storage |-> saveStore([store EXCEPT !.users[userIndex] = user]),
           result |-> Ok(account(user))]

\* userIds: the set of the ids asked for
localApi_listUserAvatars(raw, userIds) ==
  LET store == loadStore(raw)
      userOf(id) == store.users[findIndexById(store.users, id)]
      found == {id \in userIds : /\ findIndexById(store.users, id) # 0
                                 /\ "avatarUrl" \in DOMAIN userOf(id)}
  IN [storage |-> raw, result |-> Ok([id \in found |-> userOf(id).avatarUrl])]

localApi_listUserLevels(raw, userIds) ==
  LET store == loadStore(raw)
  IN [storage |-> raw,
      result |-> Ok([id \in userIds \cap DOMAIN store.profiles |->
                       store.profiles[id].level])]

----------------------------------------------------------------------------
(* localStore.ts: rooms and memberships *)

hasMembership(memberships, userId, roomId) ==
  \E i \in 1..Len(memberships) :
    memberships[i].userId = userId /\ memberships[i].roomId = roomId

\* store.rooms.find((entry) => entry.code === code)
findRoomByCode(rooms, code) == firstTrue([i \in 1..Len(rooms) |-> rooms[i].code = code])

localApi_listJoinedRooms(raw) ==
  LET store == loadStore(raw)
      joined(room) == hasMembership(store.memberships, store.currentUserId, room.id)
  IN [storage |-> raw,
      result |-> Ok(IF store.currentUserId = Undefined
                    THEN <<>>
                    ELSE SelectSeq(store.rooms, joined))]

\* code: what Math.random().toString(36).slice(2, 8).toUpperCase() gave
localApi_createRoom(raw, id, code, name, channel) ==
  LET store == loadStore(raw)
      room == [id |-> id, code |-> code, name |-> name, channel |-> channel]
      s1 == [store EXCEPT !.rooms = unshift(@, room)]
      s2 == IF store.currentUserId # Undefined
            THEN [s1 EXCEPT !.memberships =
                              unshift(@, [userId |-> store.currentUserId, roomId |-> id])]
            ELSE s1
  IN [storage |-> saveStore(s2), result |-> Ok(room)]

\* joinRoom if it did not look for a membership the user already has
joinRoomWithoutExistsCheck(raw, code) ==
  LET store == loadStore(raw)
      ri == findRoomByCode(store.rooms, code)
  IN IF ri = 0
     THEN [storage |-> raw, result |-> Ok(Null)]
     ELSE LET room == store.rooms[ri]
          IN IF store.currentUserId # Undefined
             THEN [storage |->
                     saveStore([store EXCEPT !.memberships =
                                  unshift(@, [userId |-> store.currentUserId,
                                              roomId |-> room.id])]),
                   result |-> Ok(room)]
             ELSE [storage |-> raw, result |-> Ok(room)]

localApi_joinRoom(raw, code) ==
  LET store == loadStore(raw)
      ri == findRoomByCode(store.rooms, code)
  IN IF ri = 0
     THEN [storage |-> raw, result |-> Ok(Null)]
     ELSE LET room == store.rooms[ri]
          IN IF /\ store.currentUserId # Undefined
                /\ ~hasMembership(store.memberships, store.currentUserId, room.id)
             THEN [storage |->
                     saveStore([store EXCEPT !.memberships =
                                  unshift(@, [userId |-> store.currentUserId,
                                              roomId |-> room.id])]),
                   result |-> Ok(room)]
             ELSE [storage |-> raw, result |-> Ok(room)]

----------------------------------------------------------------------------
(* Reading the stored document, for the properties *)
Store == loadStore(storage)

questionById(store, id) ==
  store.questions[findIndexById(store.questions, id)]

questionIds(store) == {store.questions[i].id : i \in 1..Len(store.questions)}

allAnswers(store) ==
  UNION {{store.questions[i].answers[k] : k \in 1..Len(store.questions[i].answers)} :
           i \in 1..Len(store.questions)}

allAnswerIds(store) == {a.id : a \in allAnswers(store)}

answerById(store, id) == CHOOSE a \in allAnswers(store) : a.id = id

qRow(q, u, t) == [questionId |-> q, userId |-> u, type |-> t]

aRow(a, u, t) == [answerId |-> a, userId |-> u, type |-> t]

\* number of rows of the table for one target and type
questionRows(b, q, t) ==
  BagCardinality(bagKeep(b, {r \in DOMAIN b : r.questionId = q /\ r.type = t}))

answerRows(b, a, t) ==
  BagCardinality(bagKeep(b, {r \in DOMAIN b : r.answerId = a /\ r.type = t}))

----------------------------------------------------------------------------
(* The calls of the local store as steps.  Every step is one whole call:
   the local functions are async but never await, so a call runs from
   loadStore to saveStore without another call in between. *)
NoDoc == [f \in {} |-> 0]

Missing == [kind |-> "missing", doc |-> NoDoc]

NoStreak == [key |-> <<>>, calls |-> 0, count0 |-> 0, present0 |-> FALSE]

\* target: the id or amount given; args: the strings given;
\* was: what the call found stored under its target before it ran
NoRet == [op |-> "none", target |-> 0, args |-> <<>>, out |-> Ok(Null), was |-> Null]

Ids == 1..MaxIds

\* VITE_USE_LOCAL === "true"; no Supabase project behind it
ForceLocal == [useLocal |-> TRUE, supabase |-> FALSE]

EmptyDb ==
  [users |-> <<>>, session |-> Undefined, profiles |-> <<>>, rooms |-> <<>>,
   room_members |-> <<>>, questions |-> <<>>, answers |-> <<>>,
   question_reactions |-> <<>>, answer_reactions |-> <<>>,
   rowCount |-> 0,           \* reaction rows ever inserted: the next row's id
   ownerColumn |-> TRUE]     \* the answers table has its owner_id column

NoCall == [pc |-> "idle"]

NoCalls == [c \in 1..MaxCalls |-> NoCall]

\* currentUser.value === null
NoUser == [id |-> Undefined]

\* refreshTimer: the variable holds an interval id; intervals: the intervals
\* set and not cleared; mounted: the component is not unmounted
NoApp == [currentUser |-> NoUser, joinedRooms |-> <<>>, profile |-> zeroProfile,
          questions |-> <<>>, error |-> "", room |-> Undefined,
          refreshTimer |-> FALSE, intervals |-> 0, mounted |-> TRUE]

\* startPolling if it did not look at refreshTimer first
startPollingUnguarded(page) ==
  [page EXCEPT !.refreshTimer = TRUE, !.intervals = @ + 1]

\* startPolling(): the page after it
startPolling(page) ==
  IF page.refreshTimer
  THEN page
  ELSE [page EXCEPT !.refreshTimer = TRUE, !.intervals = @ + 1]

\* stopPolling(): the page after it
stopPolling(page) ==
  IF page.refreshTimer
  THEN [page EXCEPT !.refreshTimer = FALSE, !.intervals = @ - 1]
  ELSE page

\* watch(room, ...), run when a task of the mounted component changed room from
\* what it is on `before`: the timer side of the callback
watchRoom(before, page) ==
  IF ~before.mounted \/ page.room = before.room THEN page
  ELSE IF page.room # Undefined THEN startPolling(page)
  ELSE stopPolling(page)

\* a build forced to the local store, with nothing remote and a fresh page
LocalOnly ==
  /\ env = ForceLocal
  /\ db = EmptyDb
  /\ calls = NoCalls
  /\ app = NoApp

questionOrNull(store, id) ==
  IF id \in questionIds(store) THEN questionById(store, id) ELSE Null

answerOrNull(store, id) ==
  IF id \in allAnswerIds(store) THEN answerById(store, id) ELSE Null

CreateQuestion(roomId, text, ownerId) ==
  /\ idCount < MaxIds
  /\ LET r == localApi_createQuestion(storage, idCount + 1, roomId, text, ownerId)
     IN /\ storage' = r.storage
        /\ ret' = [op |-> "createQuestion", target |-> idCount + 1, args |-> <<>>,
                   out |-> r.result, was |-> Null]
  /\ idCount' = idCount + 1

\* makeId() runs only after the parent question was found
CreateAnswer(questionId, text, role, ownerId) ==
  LET r == localApi_createAnswer(storage, idCount + 1, questionId, text, role, ownerId)
  IN /\ idCount < MaxIds
     /\ storage' = r.storage
     /\ ret' = [op |-> "createAnswer", target |-> questionId, args |-> <<>>,
                out |-> r.result, was |-> questionOrNull(Store, questionId)]
     /\ idCount' = IF r.result.kind = "ok" THEN idCount + 1 ELSE idCount

AddQuestionReaction(questionId, type, userId) ==
  LET r == localApi_addQuestionReaction(storage, questionId, type, userId)
  IN /\ storage' = r.storage
     /\ ret' = [op |-> "addQuestionReaction", target |-> questionId, args |-> <<>>,
                out |-> r.result, was |-> Null]
     /\ UNCHANGED idCount

AddAnswerReaction(answerId, type, userId) ==
  LET r == localApi_addAnswerReaction(storage, answerId, type, userId)
  IN /\ storage' = r.storage
     /\ ret' = [op |-> "addAnswerReaction", target |-> answerId, args |-> <<>>,
                out |-> r.result, was |-> Null]
     /\ UNCHANGED idCount

DeleteQuestion(questionId) ==
  LET r == localApi_deleteQuestion(storage, questionId)
  IN /\ storage' = r.storage
     /\ ret' = [op |-> "deleteQuestion", target |-> questionId, args |-> <<>>,
                out |-> r.result, was |-> questionOrNull(Store, questionId)]
     /\ UNCHANGED idCount

DeleteAnswer(answerId) ==
  LET r == localApi_deleteAnswer(storage, answerId)
  IN /\ storage' = r.storage
     /\ ret' = [op |-> "deleteAnswer", target |-> answerId, args |-> <<>>,
                out |-> r.result, was |-> answerOrNull(Store, answerId)]
     /\ UNCHANGED idCount

----------------------------------------------------------------------------
(* SpecLocal: questions, answers, reactions and deletes in any order, from the
   empty localStorage *)
InitLocal ==
  /\ storage = Missing
  /\ idCount = 0
  /\ ret = NoRet
  /\ streak = NoStreak
  /\ LocalOnly

\* the variables no operation of the local store touches
remoteSide == <<env, db, calls, app>>

idle == <<streak, remoteSide>>

NextLocal ==
  \/ \E room \in RoomIds : CreateQuestion(room, "t1", "u1") /\ UNCHANGED idle
  \/ \E q \in Ids : CreateAnswer(q, "t1", "student", "u2") /\ UNCHANGED idle
  \/ \E q \in Ids, t \in Types, u \in Users :
       AddQuestionReaction(q, t, u) /\ UNCHANGED idle
  \/ \E a \in Ids, t \in Types, u \in Users :
       AddAnswerReaction(a, t, u) /\ UNCHANGED idle
  \/ \E q \in Ids : DeleteQuestion(q) /\ UNCHANGED idle
  \/ \E a \in Ids : DeleteAnswer(a) /\ UNCHANGED idle

SpecLocal == InitLocal /\ [][NextLocal]_vars

----------------------------------------------------------------------------
\* C2: in every state reached from the empty local store, questionReactions
\* holds at most one row per (questionId, userId, type) and answerReactions at
\* most one row per (answerId, userId, type).
ReactionUniqueness ==
  /\ \A r \in DOMAIN Store.questionReactions : CopiesIn(r, Store.questionReactions) <= 1
  /\ \A r \in DOMAIN Store.answerReactions : CopiesIn(r, Store.answerReactions) <= 1

\* both users hold the same type on one question while an answer holds a row
ReactionUniquenessWitness ==
  /\ ret.op = "addQuestionReaction"
  /\ \E q \in Ids, t \in Types :
       /\ BagIn(qRow(q, "u1", t), Store.questionReactions)
       /\ BagIn(qRow(q, "u2", t), Store.questionReactions)
  /\ \E a \in Ids, u \in Users, t \in Types : BagIn(aRow(a, u, t), Store.answerReactions)

\* C3: for every stored question and type the reactions[type] counter equals
\* the number of questionReactions rows of that question and type, likewise for
\* every answer and answerReactions; no counter is negative.
CountRowAgreement ==
  /\ \A i \in 1..Len(Store.questions), t \in Types :
       LET q == Store.questions[i]
       IN /\ q.reactions[t] >= 0
          /\ q.reactions[t] = questionRows(Store.questionReactions, q.id, t)
  /\ \A a \in allAnswers(Store), t \in Types :
       /\ a.reactions[t] >= 0
       /\ a.reactions[t] = answerRows(Store.answerReactions, a.id, t)

\* a question counting two likes and an answer counting one reaction
CountRowAgreementWitness ==
  /\ \E i \in 1..Len(Store.questions) : Store.questions[i].reactions.like = 2
  /\ \E a \in allAnswers(Store) : a.reactions.thanks = 1

\* C4: right after deleteQuestion(q) returned true the store holds no question
\* q, no answer whose questionId is q, no questionReactions row of q and no
\* answerReactions row of an answer that belonged to q.
CascadeCompleteness ==
  (ret.op = "deleteQuestion" /\ ret.out = Ok(TRUE)) =>
     /\ ret.target \notin questionIds(Store)
     /\ \A a \in allAnswers(Store) : a.questionId # ret.target
     /\ \A r \in DOMAIN Store.questionReactions : r.questionId # ret.target
     /\ \A r \in DOMAIN Store.answerReactions : r.answerId \notin answerIds(ret.was)

\* a question that had an answer was deleted while another row survives: the
\* deleted one's answer ids are known, so its rows would be recognised
CascadeCompletenessWitness ==
  /\ ret.op = "deleteQuestion" /\ ret.out = Ok(TRUE)
  /\ ret.was.reactions.like > 0
  /\ \E k \in 1..Len(ret.was.answers) : ret.was.answers[k].reactions.thanks > 0

----------------------------------------------------------------------------
(* SpecToggle: reaction toggles by any users on a stored question and its
   answer, with the run of identical consecutive toggles recorded *)

\* the streak after one more toggle of `key`, which found `count` and `present`
nextStreak(key, exists, count, present) ==
  IF ~exists THEN NoStreak
  ELSE IF streak.key = key /\ streak.calls < MaxStreak
  THEN [streak EXCEPT !.calls = @ + 1]
  ELSE [key |-> key, calls |-> 1, count0 |-> count, present0 |-> present]

questionCount(store, q, t) ==
  IF q \in questionIds(store) THEN questionById(store, q).reactions[t] ELSE 0

answerCount(store, a, t) ==
  IF a \in allAnswerIds(store) THEN answerById(store, a).reactions[t] ELSE 0

\* the store after createQuestion (id 1) and createAnswer (id 2) on it
OneQuestionOneAnswer ==
  localApi_createAnswer(
    localApi_createQuestion(Missing, 1, "r1", "t1", "u1").storage,
    2, 1, "t1", "student", "u2").storage

InitToggle ==
  /\ storage = OneQuestionOneAnswer
  /\ idCount = 2
  /\ ret = NoRet
  /\ streak = NoStreak
  /\ LocalOnly

ToggleQuestion(q, t, u) ==
  /\ AddQuestionReaction(q, t, u)
  /\ streak' = nextStreak(<<"question", q, u, t>>, q \in questionIds(Store),
                          questionCount(Store, q, t),
                          BagIn(qRow(q, u, t), Store.questionReactions))

ToggleAnswer(a, t, u) ==
  /\ AddAnswerReaction(a, t, u)
  /\ streak' = nextStreak(<<"answer", a, u, t>>, a \in allAnswerIds(Store),
                          answerCount(Store, a, t),
                          BagIn(aRow(a, u, t), Store.answerReactions))

\* the question's id, the answer's id and an id that was never issued
ToggleTargets == {1, 2, 3}

NextToggle ==
  \/ \E q \in ToggleTargets, t \in Types, u \in Users :
       ToggleQuestion(q, t, u) /\ UNCHANGED remoteSide
  \/ \E a \in ToggleTargets, t \in Types, u \in Users :
       ToggleAnswer(a, t, u) /\ UNCHANGED remoteSide

SpecToggle == InitToggle /\ [][NextToggle]_vars

streakPresent ==
  IF streak.key[1] = "question"
  THEN BagIn(qRow(streak.key[2], streak.key[3], streak.key[4]), Store.questionReactions)
  ELSE BagIn(aRow(streak.key[2], streak.key[3], streak.key[4]), Store.answerReactions)

streakCount ==
  IF streak.key[1] = "question"
  THEN questionCount(Store, streak.key[2], streak.key[4])
  ELSE answerCount(Store, streak.key[2], streak.key[4])

\* C1: after an even number of consecutive addQuestionReaction (resp.
\* addAnswerReaction) calls with the same (target, user, type) on an existing
\* target, the target's count for the type and the presence of the row are
\* what they were before the first call; after an odd number the presence is
\* flipped.
ToggleInvolution ==
  streak.calls > 0 =>
    IF streak.calls % 2 = 0
    THEN streakPresent = streak.present0 /\ streakCount = streak.count0
    ELSE streakPresent = ~streak.present0

\* a second identical toggle of a row that was present, on a count of two
ToggleInvolutionWitness ==
  /\ streak.calls = 2
  /\ streak.present0
  /\ streak.count0 = 2
  /\ streak.key[1] = "question"

\* the same on an answer, after a third identical toggle
ToggleInvolutionAnswerWitness ==
  /\ streak.calls = 3
  /\ streak.key[1] = "answer"
  /\ ~streak.present0

----------------------------------------------------------------------------
(* SpecXp: registrations, logins, logouts and addXp calls in any order, from
   the empty localStorage *)
Passwords == {"p1", "p2"}

\* addXp amounts, in XpUnit-ths of a point
Amounts == {-5, -1, 3, 8}

\* makeId() for a new account: an id no stored account has (accounts are
\* never removed)
freshUserId(store) == <<"u1", "u2", "u3">>[Len(store.users) + 1]

\* the profile getProfile() shows
currentProfile(store) == localApi_getProfile(saveStore(store)).result.value

RegisterUser(name, role, email, password) ==
  LET r == localApi_registerUser(storage, freshUserId(Store), name, role, email, password)
  IN /\ storage' = r.storage
     /\ ret' = [op |-> "registerUser", target |-> 0, args |-> <<email>>, out |-> r.result,
                was |-> Null]
     /\ UNCHANGED idCount

LoginUser(email, password) ==
  LET r == localApi_loginUser(storage, email, password)
  IN /\ storage' = r.storage
     /\ ret' = [op |-> "loginUser", target |-> 0, args |-> <<email>>, out |-> r.result,
                was |-> Null]
     /\ UNCHANGED idCount

LogoutUser ==
  LET r == localApi_logoutUser(storage)
  IN /\ storage' = r.storage
     /\ ret' = [op |-> "logoutUser", target |-> 0, args |-> <<>>,
                out |-> r.result, was |-> Null]
     /\ UNCHANGED idCount

AddXp(amount) ==
  LET r == localApi_addXp(storage, amount)
  IN /\ r.result.value.xp <= MaxXp * XpUnit
     /\ storage' = r.storage
     /\ ret' = [op |-> "addXp", target |-> amount, args |-> <<>>,
                out |-> r.result, was |-> currentProfile(Store)]
     /\ UNCHANGED idCount

NextXp ==
  \/ \E e \in {"a@x", "b@x"} : RegisterUser("n1", "student", e, "p1") /\ UNCHANGED idle
  \/ \E e \in {"A@x", "b@x"}, pw \in Passwords : LoginUser(e, pw) /\ UNCHANGED idle
  \/ LogoutUser /\ UNCHANGED idle
  \/ \E amount \in Amounts : AddXp(amount) /\ UNCHANGED idle

SpecXp == InitLocal /\ [][NextXp]_vars

\* C5: every stored profile has xp >= 0, level = floor(xp) and avatarStage =
\* 3 if level >= 12, 2 if level >= 7, 1 if level >= 3, else 0, whatever addXp
\* calls with positive or negative amounts were made; what addXp returns is the
\* stored profile of the logged-in user.
XpFloorAndDerivation ==
  /\ \A u \in DOMAIN Store.profiles :
       LET p == Store.profiles[u]
       IN /\ p.xp >= 0
          /\ p.level * XpUnit <= p.xp /\ p.xp < (p.level + 1) * XpUnit
          /\ p.avatarStage = (CASE p.level >= 12 -> 3
                                [] p.level >= 7 /\ p.level < 12 -> 2
                                [] p.level >= 3 /\ p.level < 7 -> 1
                                [] OTHER -> 0)
  /\ (ret.op = "addXp" /\ Store.currentUserId # Undefined) =>
        ret.out = Ok(Store.profiles[Store.currentUserId])

\* a deduction larger than the stored xp was made and the xp is 0, with
\* another user's profile in the top avatar stage at a fractional xp
XpFloorAndDerivationWitness ==
  /\ ret.op = "addXp"
  /\ ret.was.xp > 0
  /\ ret.was.xp + ret.target < 0
  /\ Store.profiles[Store.currentUserId].xp = 0
  /\ \E u \in DOMAIN Store.profiles :
       /\ Store.profiles[u].avatarStage = 3
       /\ Store.profiles[u].xp % XpUnit # 0

----------------------------------------------------------------------------
(* SpecAuthz: three registered accounts (two students and a teacher) log in
   and out, post questions and answers under their own id and call
   the delete and text operations of the local store on any id; the teacher
   likes questions *)

UpdateQuestionText(questionId, text) ==
  LET r == localApi_updateQuestionText(storage, questionId, text)
  IN /\ storage' = r.storage
     /\ ret' = [op |-> "updateQuestionText", target |-> questionId, args |-> <<>>,
                out |-> r.result, was |-> questionOrNull(Store, questionId)]
     /\ UNCHANGED idCount

UpdateAnswerText(answerId, text) ==
  LET r == localApi_updateAnswerText(storage, answerId, text)
  IN /\ storage' = r.storage
     /\ ret' = [op |-> "updateAnswerText", target |-> answerId, args |-> <<>>,
                out |-> r.result, was |-> answerOrNull(Store, answerId)]
     /\ UNCHANGED idCount

\* the store after three registrations and a logout
ThreeAccounts ==
  localApi_logoutUser(
    localApi_registerUser(
      localApi_registerUser(
        localApi_registerUser(Missing, "u1", "n1", "student", "a@x", "p1").storage,
        "u2", "n2", "student", "b@x", "p1").storage,
      "u3", "n3", "teacher", "c@x", "p1").storage).storage

InitAuthz ==
  /\ storage = ThreeAccounts
  /\ idCount = 0
  /\ ret = NoRet
  /\ streak = NoStreak
  /\ LocalOnly

\* the account of the logged-in user: who calls
caller(store) == store.users[findIndexById(store.users, store.currentUserId)]

loggedIn(store) == findIndexById(store.users, store.currentUserId) # 0

NextAuthz ==
  \/ \E e \in {"a@x", "b@x", "c@x"} : LoginUser(e, "p1") /\ UNCHANGED idle
  \/ /\ loggedIn(Store)
     /\ CreateQuestion("r1", "t1", Store.currentUserId)
     /\ UNCHANGED idle
  \/ /\ loggedIn(Store)
     /\ \E q \in Ids : CreateAnswer(q, "t1", caller(Store).role, Store.currentUserId)
     /\ UNCHANGED idle
  \/ /\ Store.currentUserId = "u3"
     /\ \E q \in Ids : AddQuestionReaction(q, "like", Store.currentUserId)
     /\ UNCHANGED idle
  \/ loggedIn(Store) /\ (\E q \in Ids : DeleteQuestion(q)) /\ UNCHANGED idle
  \/ loggedIn(Store) /\ (\E q \in Ids : UpdateQuestionText(q, "t2")) /\ UNCHANGED idle
  \/ loggedIn(Store) /\ (\E a \in Ids : DeleteAnswer(a)) /\ UNCHANGED idle
  \/ loggedIn(Store) /\ (\E a \in Ids : UpdateAnswerText(a, "t2")) /\ UNCHANGED idle

SpecAuthz == InitAuthz /\ [][NextAuthz]_vars

\* a student who does not own the entity
outsider(store, entity) ==
  /\ caller(store).role = "student"
  /\ entity.ownerId # caller(store).id

\* C6: a deleteQuestion or updateQuestionText call by a student who is not
\* the question's owner raises an error and leaves the stored document as it
\* was, and so does a deleteAnswer or updateAnswerText call by a student who
\* is not the answer's owner.
DeleteEditAuthorization ==
  [][ /\ (/\ ret'.op \in {"deleteQuestion", "updateQuestionText"}
          /\ ret'.target \in questionIds(Store)
          /\ outsider(Store, questionById(Store, ret'.target)))
         => (ret'.out.kind = "throw" /\ storage' = storage)
      /\ (/\ ret'.op \in {"deleteAnswer", "updateAnswerText"}
          /\ ret'.target \in allAnswerIds(Store)
          /\ outsider(Store, answerById(Store, ret'.target)))
         => (ret'.out.kind = "throw" /\ storage' = storage) ]_vars

----------------------------------------------------------------------------
(* data.ts: the Supabase calls of the account and room operations.  A table
   is the sequence of its rows in insertion order (created_at, joined_at). *)

\* auth.users rows hold the address as given at sign-up; GoTrue compares
\* addresses without case
findAuthUser(users, email) ==
  firstTrue([i \in 1..Len(users) |-> toLowerCase(users[i].email) = toLowerCase(email)])

\* supabase.from(table).upsert(row): the row with this id is replaced, or added
upsertById(rows, row) ==
  IF findIndexById(rows, row.id) # 0
  THEN [rows EXCEPT ![findIndexById(rows, row.id)] = row]
  ELSE push(rows, row)

hasMember(room_members, room_id, user_id) ==
  \E i \in 1..Len(room_members) :
    room_members[i].room_id = room_id /\ room_members[i].user_id = user_id

\* upsert(..., { onConflict: "room_id,user_id", ignoreDuplicates: true })
upsertMember(room_members, room_id, user_id) ==
  IF hasMember(room_members, room_id, user_id)
  THEN room_members
  ELSE push(room_members, [room_id |-> room_id, user_id |-> user_id])

\* the reverse of a sequence: order("joined_at", { ascending: false })
descending(s) == [i \in 1..Len(s) |-> s[Len(s) + 1 - i]]

\* the remote branch of dataApi.registerUser
supabase_registerUser(raw, d, id, name, role, email, password) ==
  IF findAuthUser(d.users, email) # 0
  THEN [storage |-> raw, db |-> d, result |-> Threw("User already registered")]
  ELSE LET signedUp == [d EXCEPT !.users = push(@, [id |-> id, email |-> email,
                                                    password |-> password]),
                                 !.session = id]
           profile == [id |-> id, display_name |-> name, role |-> role,
                       xp |-> 0, level |-> 0]
       IN [storage |-> localApi_setCurrentUserId(raw, id).storage,
           db |-> [signedUp EXCEPT !.profiles = upsertById(@, profile)],
           result |-> Ok([id |-> id, name |-> name, role |-> role, email |-> email])]

\* the remote branch of dataApi.loginUser
supabase_loginUser(raw, d, email, password) ==
  LET ui == findAuthUser(d.users, email)
  IN IF ui = 0 \/ d.users[ui].password # password
     THEN [storage |-> raw, db |-> d, result |-> Ok(Null)]
     ELSE LET id == d.users[ui].id
              signedIn == [d EXCEPT !.session = id]
              pi == findIndexById(d.profiles, id)
          IN IF pi = 0
             THEN [storage |-> raw, db |-> signedIn,
                   result |-> Threw("profile not found")]
             ELSE [storage |-> localApi_setCurrentUserId(raw, id).storage,
                   db |-> signedIn,
                   result |-> Ok([id |-> id, name |-> d.profiles[pi].display_name,
                                  role |-> d.profiles[pi].role, email |-> email])]

\* the remote branch of dataApi.logoutUser
supabase_logoutUser(raw, d) ==
  [storage |-> localApi_setCurrentUserId(raw, Undefined).storage,
   db |-> [d EXCEPT !.session = Undefined],
   result |-> Ok(Undefined)]

\* the remote branch of dataApi.getCurrentUser, with a client
supabase_getCurrentUser(raw, d) ==
  LET ui == findIndexById(d.users, d.session)
      pi == findIndexById(d.profiles, d.session)
  IN IF d.session = Undefined \/ ui = 0 \/ pi = 0
     THEN [storage |-> raw, db |-> d, result |-> Ok(Null)]
     ELSE [storage |-> localApi_setCurrentUserId(raw, d.session).storage,
           db |-> d,
           result |-> Ok([id |-> d.session, name |-> d.profiles[pi].display_name,
                          role |-> d.profiles[pi].role, email |-> d.users[ui].email])]

\* the remote branch of dataApi.listJoinedRooms
supabase_listJoinedRooms(raw, d) ==
  LET mine(member) == member.user_id = d.session
      members == descending(SelectSeq(d.room_members, mine))
      roomOf(member) == d.rooms[findIndexById(d.rooms, member.room_id)]
  IN [storage |-> raw, db |-> d,
      result |-> Ok(IF d.session = Undefined
                    THEN <<>>
                    ELSE [i \in 1..Len(members) |-> roomOf(members[i])])]

\* the remote branch of dataApi.createRoom; code: what the column default
\* upper(substr(md5(random()::text), 1, 6)) gave, rejected when it is taken
supabase_createRoom(raw, d, id, code, name, channel) ==
  IF d.session = Undefined
  THEN [storage |-> raw, db |-> d, result |-> Threw("auth required")]
  ELSE IF findRoomByCode(d.rooms, code) # 0
  THEN [storage |-> raw, db |-> d, result |-> Threw("23505")]
  ELSE LET room == [id |-> id, code |-> code, name |-> name, channel |-> channel]
       IN [storage |-> raw,
           db |-> [d EXCEPT !.rooms = push(@, room),
                            !.room_members = upsertMember(@, id, d.session)],
           result |-> Ok(room)]

\* the remote branch of dataApi.joinRoom
supabase_joinRoom(raw, d, code) ==
  LET ri == findRoomByCode(d.rooms, code)
  IN IF ri = 0
     THEN [storage |-> raw, db |-> d, result |-> Ok(Null)]
     ELSE [storage |-> raw,
           db |-> IF d.session # Undefined
                  THEN [d EXCEPT !.room_members = upsertMember(@, d.rooms[ri].id, d.session)]
                  ELSE d,
           result |-> Ok(d.rooms[ri])]

----------------------------------------------------------------------------
(* data.ts: dataApi, the account and room operations *)

\* a call the local store serves: the remote side is not touched
served(local, d) == [storage |-> local.storage, db |-> d, result |-> local.result]

\* requireSupabase() without a client
notConfigured(raw, d) ==
  [storage |-> raw, db |-> d, result |-> Threw("Supabase is not configured")]

dataApi_registerUser(e, raw, d, id, name, role, email, password) ==
  IF e.useLocal THEN served(localApi_registerUser(raw, id, name, role, email, password), d)
  ELSE IF ~e.supabase THEN notConfigured(raw, d)
  ELSE supabase_registerUser(raw, d, id, name, role, email, password)

dataApi_loginUser(e, raw, d, email, password) ==
  IF e.useLocal THEN served(localApi_loginUser(raw, email, password), d)
  ELSE IF ~e.supabase THEN notConfigured(raw, d)
  ELSE supabase_loginUser(raw, d, email, password)

dataApi_logoutUser(e, raw, d) ==
  IF e.useLocal THEN served(localApi_logoutUser(raw), d)
  ELSE IF ~e.supabase THEN notConfigured(raw, d)
  ELSE supabase_logoutUser(raw, d)

dataApi_getCurrentUser(e, raw, d) ==
  IF e.useLocal THEN served(localApi_getCurrentUser(raw), d)
  ELSE IF ~e.supabase THEN [storage |-> raw, db |-> d, result |-> Ok(Null)]
  ELSE supabase_getCurrentUser(raw, d)

dataApi_listJoinedRooms(e, raw, d) ==
  IF e.useLocal THEN served(localApi_listJoinedRooms(raw), d)
  ELSE IF ~e.supabase THEN notConfigured(raw, d)
  ELSE supabase_listJoinedRooms(raw, d)

dataApi_createRoom(e, raw, d, id, code, name, channel) ==
  IF e.useLocal THEN served(localApi_createRoom(raw, id, code, name, channel), d)
  ELSE IF ~e.supabase THEN notConfigured(raw, d)
  ELSE supabase_createRoom(raw, d, id, code, name, channel)

dataApi_joinRoom(e, raw, d, code) ==
  IF e.useLocal THEN served(localApi_joinRoom(raw, code), d)
  ELSE IF ~e.supabase THEN notConfigured(raw, d)
  ELSE supabase_joinRoom(raw, d, code)

----------------------------------------------------------------------------
(* SpecFacade: the account and room operations of dataApi, in any order, in
   each configuration of the build *)

RoomCodes == {"K1", "K2"}

\* a new account's id: makeId() in the local store, the auth user's uuid in
\* Supabase (accounts are never removed)
newUserId(e, store, d) ==
  IF e.useLocal THEN freshUserId(store) ELSE <<"u1", "u2", "u3">>[Len(d.users) + 1]

\* a new room's id: makeId() in the local store, the row's uuid in Supabase
\* (rooms are never removed)
newRoomId(e, store, d) ==
  <<"r1", "r2", "r3">>[(IF e.useLocal THEN Len(store.rooms) ELSE Len(d.rooms)) + 1]

\* one call of dataApi from outside this page: `r` is what it did, `target`
\* and `args` what it was given
callOn(op, target, args, r) ==
  /\ storage' = r.storage
  /\ db' = r.db
  /\ ret' = [op |-> op, target |-> target, args |-> args, out |-> r.result,
             was |-> Null]
  /\ UNCHANGED <<streak, env, calls, app>>

call(op, args, r) == callOn(op, 0, args, r) /\ UNCHANGED idCount

FacadeRegisterUser(name, role, email, password) ==
  call("registerUser", <<name, role, email, password>>,
       dataApi_registerUser(env, storage, db, newUserId(env, Store, db),
                            name, role, email, password))

FacadeLoginUser(email, password) ==
  call("loginUser", <<email, password>>,
       dataApi_loginUser(env, storage, db, email, password))

FacadeLogoutUser == call("logoutUser", <<>>, dataApi_logoutUser(env, storage, db))

FacadeGetCurrentUser == call("getCurrentUser", <<>>, dataApi_getCurrentUser(env, storage, db))

FacadeListJoinedRooms ==
  call("listJoinedRooms", <<>>, dataApi_listJoinedRooms(env, storage, db))

FacadeCreateRoom(code, name, channel) ==
  /\ Len(Store.rooms) < MaxRooms
  /\ Len(db.rooms) < MaxRooms
  /\ call("createRoom", <<code, name, channel>>,
          dataApi_createRoom(env, storage, db, newRoomId(env, Store, db),
                             code, name, channel))

FacadeJoinRoom(code) == call("joinRoom", <<code>>, dataApi_joinRoom(env, storage, db, code))

InitFacade ==
  /\ storage = Missing
  /\ idCount = 0
  /\ ret = NoRet
  /\ streak = NoStreak
  /\ env \in [useLocal : BOOLEAN, supabase : BOOLEAN]
  /\ db = EmptyDb
  /\ calls = NoCalls
  /\ app = NoApp

NextFacade ==
  \/ \E email \in {"a@x", "b@x"} : FacadeRegisterUser("n1", "student", email, "p1")
  \/ \E email \in {"A@x", "b@x"}, password \in Passwords : FacadeLoginUser(email, password)
  \/ FacadeLogoutUser
  \/ FacadeGetCurrentUser
  \/ FacadeListJoinedRooms
  \/ \E code \in RoomCodes : FacadeCreateRoom(code, "n1", "ch1")
  \/ \E code \in RoomCodes : FacadeJoinRoom(code)

SpecFacade == InitFacade /\ [][NextFacade]_vars

\* what the local store does with the call `op` of `args`
localOutcome(op, args, raw) ==
  CASE op = "registerUser" ->
         localApi_registerUser(raw, freshUserId(loadStore(raw)),
                               args[1], args[2], args[3], args[4])
    [] op = "loginUser" -> localApi_loginUser(raw, args[1], args[2])
    [] op = "logoutUser" -> localApi_logoutUser(raw)
    [] op = "getCurrentUser" -> localApi_getCurrentUser(raw)
    [] op = "listJoinedRooms" -> localApi_listJoinedRooms(raw)
    [] op = "createRoom" ->
         localApi_createRoom(raw, <<"r1", "r2", "r3">>[Len(loadStore(raw).rooms) + 1],
                             args[1], args[2], args[3])
    [] op = "joinRoom" -> localApi_joinRoom(raw, args[1])

AccountAndRoomOps ==
  {"registerUser", "loginUser", "logoutUser", "getCurrentUser", "listJoinedRooms",
   "createRoom", "joinRoom"}

\* C7: a call of registerUser, loginUser, logoutUser, getCurrentUser,
\* createRoom, joinRoom or listJoinedRooms is served by the local store (it
\* returns what the local store returns, leaves localStorage as the local
\* store leaves it, and touches nothing remote) when force-local is set and
\* also when force-local is off and getSupabase() yields no client; with a
\* client and force-local off the call does not fail for lack of
\* configuration.
BackendSelection ==
  [][ ret'.op \in AccountAndRoomOps =>
        IF env.useLocal \/ ~env.supabase
        THEN /\ ret'.out = localOutcome(ret'.op, ret'.args, storage).result
             /\ storage' = localOutcome(ret'.op, ret'.args, storage).storage
             /\ db' = db
        ELSE ret'.out # Threw("Supabase is not configured") ]_vars

----------------------------------------------------------------------------
(* data.ts: the Supabase calls of the question, answer and profile
   operations, each against the tables and policies of the README's SQL *)

\* the build talks to a Supabase project
Remote == [useLocal |-> FALSE, supabase |-> TRUE]

isRemote(e) == ~e.useLocal /\ e.supabase

\* mapAnswer(row)
mapAnswer(row) ==
  [id |-> row.id, questionId |-> row.question_id, text |-> row.text, role |-> row.role,
   ownerId |-> row.owner_id, reactions |-> baseReactions]

\* the rows of answers(*) under a question, in created_at order
answersOf(d, questionId) ==
  LET under(row) == row.question_id = questionId
      rows == SelectSeq(d.answers, under)
  IN [i \in 1..Len(rows) |-> mapAnswer(rows[i])]

\* mapQuestion(row) of a row selected with "*, answers(*)"
mapQuestion(row, answers) ==
  [id |-> row.id, roomId |-> row.room_id, text |-> row.text, status |-> row.status,
   ownerId |-> row.owner_id, reactions |-> row.reactions, answers |-> answers]

\* the policies "questions update/delete" and "answers update/delete"
ownerOrStaff(d, row) ==
  \/ d.session # Undefined /\ d.session = row.owner_id
  \/ \E i \in 1..Len(d.profiles) :
       d.profiles[i].id = d.session /\ d.profiles[i].role \in {"teacher", "ta"}

\* the remote branch of dataApi.createQuestion
supabase_createQuestion(d, id, roomId, text, ownerId) ==
  LET resolvedOwnerId == IF ownerId # Undefined THEN ownerId ELSE d.session
      row == [id |-> id, room_id |-> roomId, owner_id |-> resolvedOwnerId, text |-> text,
              status |-> "open", reactions |-> baseReactions]
  IN IF d.session = Undefined
     THEN [db |-> d, result |-> Threw("42501")]       \* policy "questions insert"
     ELSE IF findIndexById(d.rooms, roomId) = 0
     THEN [db |-> d, result |-> Threw("23503")]       \* room_id references rooms(id)
     ELSE IF resolvedOwnerId # Undefined /\ findIndexById(d.users, resolvedOwnerId) = 0
     THEN [db |-> d, result |-> Threw("23503")]       \* owner_id references auth.users(id)
     ELSE [db |-> [d EXCEPT !.questions = push(@, row)],
           result |-> Ok(mapQuestion(row, <<>>))]

\* supabase.from("answers").insert([...]).select().single(); withOwner: the
\* payload names owner_id (JSON drops an undefined owner_id)
insertAnswer(d, id, questionId, text, role, ownerId, withOwner) ==
  LET row == [id |-> id, question_id |-> questionId,
              owner_id |-> IF withOwner THEN ownerId ELSE Undefined,
              text |-> text, role |-> role]
  IN IF withOwner /\ ownerId # Undefined /\ ~d.ownerColumn
     THEN [db |-> d, error |-> "PGRST204", row |-> Null]
     ELSE IF d.session = Undefined
     THEN [db |-> d, error |-> "42501", row |-> Null]   \* policy "answers insert"
     ELSE IF role \notin {"teacher", "student", "ta"}
     THEN [db |-> d, error |-> "23514", row |-> Null]   \* check (role in (...))
     ELSE IF findIndexById(d.questions, questionId) = 0
     THEN [db |-> d, error |-> "23503", row |-> Null]   \* question_id references questions(id)
     ELSE IF row.owner_id # Undefined /\ findIndexById(d.users, row.owner_id) = 0
     THEN [db |-> d, error |-> "23503", row |-> Null]   \* owner_id references auth.users(id)
     ELSE [db |-> [d EXCEPT !.answers = push(@, row)], error |-> "", row |-> row]

\* the remote branch of dataApi.createAnswer
supabase_createAnswer(d, id, questionId, text, role, ownerId) ==
  LET first == insertAnswer(d, id, questionId, text, role, ownerId, TRUE)
      retry == insertAnswer(d, id, questionId, text, role, ownerId, FALSE)
  IN IF first.error \in {"42703", "PGRST204"}
     THEN IF retry.error # ""
          THEN [db |-> retry.db, result |-> Threw(retry.error)]
          ELSE [db |-> retry.db, result |-> Ok(mapAnswer(retry.row))]
     ELSE IF first.error # ""
     THEN [db |-> first.db, result |-> Threw(first.error)]
     ELSE [db |-> first.db, result |-> Ok(mapAnswer(first.row))]

\* rows of `table` that are none of the question's and none of its answers':
\* what "on delete cascade" leaves
keepRows(rows, field, gone) ==
  LET kept(row) == row[field] \notin gone
  IN SelectSeq(rows, kept)

answerRowIds(d, questionId) ==
  {d.answers[i].id : i \in {j \in 1..Len(d.answers) : d.answers[j].question_id = questionId}}

\* the remote branch of dataApi.deleteQuestion
supabase_deleteQuestion(d, questionId) ==
  LET qi == findIndexById(d.questions, questionId)
  IN IF qi = 0 \/ ~ownerOrStaff(d, d.questions[qi])
     THEN [db |-> d, result |-> Threw("no permission to delete")]
     ELSE [db |-> [d EXCEPT
                     !.questions = splice1(@, qi),
                     !.answers = keepRows(@, "question_id", {questionId}),
                     !.question_reactions = keepRows(@, "question_id", {questionId}),
                     !.answer_reactions = keepRows(@, "answer_id", answerRowIds(d, questionId))],
           result |-> Ok(TRUE)]

\* the remote branch of dataApi.addXp: the profile row is read, then updated
supabase_addXp(d, amount) ==
  LET pi == findIndexById(d.profiles, d.session)
      currentXp == IF pi = 0 THEN 0 ELSE d.profiles[pi].xp
      newXp == Max(0, currentXp + amount)
      newLevel == levelForXp(newXp)
  IN IF d.session = Undefined
     THEN [db |-> d, result |-> Ok(zeroProfile)]
     ELSE [db |-> IF pi = 0 THEN d
                  ELSE [d EXCEPT !.profiles[pi].xp = newXp, !.profiles[pi].level = newLevel],
           result |-> Ok([xp |-> newXp, level |-> newLevel,
                          avatarStage |-> avatarForLevel(newLevel)])]

----------------------------------------------------------------------------
(* data.ts: dataApi, the question, answer and profile operations; without a
   client these fall back to the local store *)

\* a call Supabase serves: localStorage is not touched
remotely(raw, remote) == [storage |-> raw, db |-> remote.db, result |-> remote.result]

dataApi_createQuestion(e, raw, d, id, roomId, text, ownerId) ==
  IF isRemote(e) THEN remotely(raw, supabase_createQuestion(d, id, roomId, text, ownerId))
  ELSE served(localApi_createQuestion(raw, id, roomId, text, ownerId), d)

dataApi_createAnswer(e, raw, d, id, questionId, text, role, ownerId) ==
  IF isRemote(e)
  THEN remotely(raw, supabase_createAnswer(d, id, questionId, text, role, ownerId))
  ELSE served(localApi_createAnswer(raw, id, questionId, text, role, ownerId), d)

dataApi_deleteQuestion(e, raw, d, questionId) ==
  IF isRemote(e) THEN remotely(raw, supabase_deleteQuestion(d, questionId))
  ELSE served(localApi_deleteQuestion(raw, questionId), d)

dataApi_addXp(e, raw, d, amount) ==
  IF isRemote(e) THEN remotely(raw, supabase_addXp(d, amount))
  ELSE served(localApi_addXp(raw, amount), d)

\* the remote branch of dataApi.getProfile
supabase_getProfile(d) ==
  LET pi == findIndexById(d.profiles, d.session)
  IN [db |-> d,
      result |-> Ok(IF d.session = Undefined \/ pi = 0
                    THEN zeroProfile
                    ELSE [xp |-> d.profiles[pi].xp, level |-> d.profiles[pi].level,
                          avatarStage |-> avatarForLevel(d.profiles[pi].level)])]

dataApi_getProfile(e, raw, d) ==
  IF isRemote(e) THEN remotely(raw, supabase_getProfile(d))
  ELSE served(localApi_getProfile(raw), d)

----------------------------------------------------------------------------
(* data.ts: the remote branch of addQuestionReaction and addAnswerReaction,
   one step per request to Supabase, so that calls interleave *)

reactionTable(op) ==
  IF op = "addQuestionReaction" THEN "question_reactions" ELSE "answer_reactions"

targetColumn(op) == IF op = "addQuestionReaction" THEN "question_id" ELSE "answer_id"

targetTable(op) == IF op = "addQuestionReaction" THEN "questions" ELSE "answers"

\* the row with this target, user and type
findReaction(rows, column, target, userId, type) ==
  firstTrue([i \in 1..Len(rows) |->
               /\ rows[i][column] = target
               /\ rows[i].user_id = userId
               /\ rows[i].type = type])

\* .insert([{ question_id | answer_id, user_id, type }]) on a reaction table:
\* the error's code, or "" when the row goes in
\* the insert if the reaction tables had no unique (target, user_id, type)
insertReactionErrorNoUnique(d, op, target, userId, type) ==
  IF d.session = Undefined \/ d.session # userId
  THEN "42501"
  ELSE IF findIndexById(d[targetTable(op)], target) = 0
  THEN "23503"
  ELSE ""

insertReactionError(d, op, target, userId, type) ==
  IF d.session = Undefined \/ d.session # userId
  THEN "42501"     \* policy insert: auth.uid() = user_id
  ELSE IF findReaction(d[reactionTable(op)], targetColumn(op), target, userId, type) # 0
  THEN "23505"     \* unique (target, user_id, type)
  ELSE IF findIndexById(d[targetTable(op)], target) = 0
  THEN "23503"     \* the target's foreign key
  ELSE ""

\* reactions[row.type] += 1 over the target's rows
recount(rows, column, target) ==
  [t \in Types |->
     Cardinality({i \in 1..Len(rows) : rows[i][column] = target /\ rows[i].type = t})]

\* the call in slot c ends with `out`
finish(c, out) ==
  /\ ret' = [op |-> calls[c].op, target |-> calls[c].target,
             args |-> <<calls[c].type, calls[c].userId>>, out |-> out, was |-> Null]
  /\ calls' = [calls EXCEPT ![c] = NoCall]

\* .select("id").eq(...).eq("user_id", userId).eq("type", type).maybeSingle()
ReactionSelect(c, op, target, type, userId) ==
  /\ isRemote(env)
  /\ calls[c].pc = "idle"
  /\ LET rows == db[reactionTable(op)]
         ei == findReaction(rows, targetColumn(op), target, userId, type)
     IN calls' = [calls EXCEPT ![c] =
                    [pc |-> "write", op |-> op, target |-> target, type |-> type,
                     userId |-> userId,
                     existing |-> IF ei = 0 THEN 0 ELSE rows[ei].id]]
  /\ UNCHANGED <<storage, idCount, ret, streak, env, db, app>>

\* if (existing) delete().eq("id", existing.id) else insert([...])
ReactionWrite(c) ==
  /\ calls[c].pc = "write"
  /\ LET k == calls[c]
         table == reactionTable(k.op)
         di == findIndexById(db[table], k.existing)
         error == insertReactionError(db, k.op, k.target, k.userId, k.type)
         row == (targetColumn(k.op) :> k.target) @@
                [id |-> db.rowCount + 1, user_id |-> k.userId, type |-> k.type]
     IN IF k.existing # 0
        THEN \* policy delete: auth.uid() = user_id; no row is no error
             /\ db' = IF di # 0 /\ db[table][di].user_id = db.session
                      THEN [db EXCEPT ![table] = splice1(@, di)]
                      ELSE db
             /\ calls' = [calls EXCEPT ![c].pc = "fetch"]
             /\ UNCHANGED ret
        ELSE IF error # ""
        THEN finish(c, Threw(error)) /\ UNCHANGED db
        ELSE /\ db.rowCount < MaxRows
             /\ db' = [db EXCEPT ![table] = push(@, row), !.rowCount = @ + 1]
             /\ calls' = [calls EXCEPT ![c].pc = "fetch"]
             /\ UNCHANGED ret
  /\ UNCHANGED <<storage, idCount, streak, env, app>>

\* .from("questions").select("*, answers(*)") | .from("answers").select("*")
ReactionFetch(c) ==
  /\ calls[c].pc = "fetch"
  /\ LET k == calls[c]
         ti == findIndexById(db[targetTable(k.op)], k.target)
         row == db[targetTable(k.op)][ti]
     IN IF ti = 0
        THEN finish(c, Ok(Null))
        ELSE /\ calls' = [calls EXCEPT ![c] =
                            [k EXCEPT !.pc = "recount"] @@
                            [fetched |-> IF k.op = "addQuestionReaction"
                                         THEN mapQuestion(row, answersOf(db, k.target))
                                         ELSE mapAnswer(row)]]
             /\ UNCHANGED ret
  /\ UNCHANGED <<storage, idCount, streak, env, db, app>>

\* the rows of the target are read and counted; the call returns
ReactionRecount(c) ==
  /\ calls[c].pc = "recount"
  /\ LET k == calls[c]
     IN finish(c, Ok([k.fetched EXCEPT !.reactions =
                        recount(db[reactionTable(k.op)], targetColumn(k.op), k.target)]))
  /\ UNCHANGED <<storage, idCount, streak, env, db, app>>

----------------------------------------------------------------------------
(* SpecRemote: against a Supabase project with an account, a room, a question
   and an answer, reaction calls run concurrently and the question is deleted
   at any time *)

\* the project after registerUser, createRoom, createQuestion, createAnswer
OneOfEach ==
  LET registered == supabase_registerUser(Missing, EmptyDb, "u1", "n1", "student",
                                          "a@x", "p1")
      roomed == supabase_createRoom(registered.storage, registered.db, "r1", "K1",
                                    "n1", "ch1")
      asked == supabase_createQuestion(roomed.db, 1, "r1", "t1", "u1")
      answered == supabase_createAnswer(asked.db, 2, 1, "t1", "student", "u1")
  IN [storage |-> registered.storage, db |-> answered.db]

InitRemote ==
  /\ storage = OneOfEach.storage
  /\ idCount = 2
  /\ ret = NoRet
  /\ streak = NoStreak
  /\ env = Remote
  /\ db = OneOfEach.db
  /\ calls = NoCalls
  /\ app = NoApp

FacadeDeleteQuestion(questionId) ==
  /\ callOn("deleteQuestion", questionId, <<>>,
            dataApi_deleteQuestion(env, storage, db, questionId))
  /\ UNCHANGED idCount

NextRemote ==
  \/ \E c \in 1..MaxCalls, op \in {"addQuestionReaction", "addAnswerReaction"},
        target \in ToggleTargets, userId \in Users :
       ReactionSelect(c, op, target, "like", userId)
  \/ \E c \in 1..MaxCalls : ReactionWrite(c)
  \/ \E c \in 1..MaxCalls : ReactionFetch(c)
  \/ \E c \in 1..MaxCalls : ReactionRecount(c)
  \/ FacadeDeleteQuestion(1)

SpecRemote == InitRemote /\ [][NextRemote]_vars

\* C8: no addQuestionReaction or addAnswerReaction call against Supabase ends
\* by throwing the uniqueness rejection (23505) of its insert: the rejected
\* insert is a no-op for the caller.
BenignConflict ==
  ~(/\ ret.op \in {"addQuestionReaction", "addAnswerReaction"}
    /\ ret.out = Threw("23505"))

----------------------------------------------------------------------------
(* App.vue: handleRegister, handleReply and the timer of setError.  The page
   was opened without ?room=, so pendingJoinCode is null; the accounts have
   no avatarUrl, so userAvatars stays as it is. *)

HandleRegister(name, role, email, password) ==
  LET r1 == dataApi_registerUser(env, storage, db, newUserId(env, Store, db),
                                 name, role, email, password)
      r2 == dataApi_listJoinedRooms(env, r1.storage, r1.db)
      r3 == dataApi_getProfile(env, r2.storage, r2.db)
  IN /\ IF r1.result.kind = "throw"
        THEN /\ storage' = r1.storage
             /\ db' = r1.db
             /\ app' = [app EXCEPT !.error = r1.result.value]
        ELSE /\ storage' = r3.storage
             /\ db' = r3.db
             /\ app' = [app EXCEPT !.currentUser = r1.result.value,
                                   !.joinedRooms = r2.result.value,
                                   !.profile = r3.result.value]
     /\ ret' = [op |-> "handleRegister", target |-> 0, args |-> <<email>>,
                out |-> r1.result, was |-> Null]
     /\ UNCHANGED <<idCount, streak, env, calls>>

\* question.id === payload.questionId ? { ...question, answers: [...answers, answer] }
withAnswer(questions, questionId, answer) ==
  [i \in 1..Len(questions) |->
     IF questions[i].id = questionId
     THEN [questions[i] EXCEPT !.answers = push(@, answer)]
     ELSE questions[i]]

\* RoomView, which emits reply, is rendered only with a currentUser
HandleReply(questionId, text) ==
  LET user == app.currentUser
      r1 == dataApi_createAnswer(env, storage, db, idCount + 1, questionId, text,
                                 user.role, user.id)
      r2 == dataApi_addXp(env, r1.storage, r1.db, XpUnit)
  IN /\ user.id # Undefined
     /\ IF r1.result.kind = "throw"
        THEN /\ storage' = r1.storage
             /\ db' = r1.db
             /\ app' = [app EXCEPT !.error = r1.result.value]
             /\ UNCHANGED idCount
        ELSE /\ idCount < MaxIds
             /\ storage' = r2.storage
             /\ db' = r2.db
             /\ app' = [app EXCEPT
                          !.profile = r2.result.value,
                          !.questions = withAnswer(@, questionId, r1.result.value)]
             /\ idCount' = idCount + 1
     /\ ret' = [op |-> "handleReply", target |-> questionId, args |-> <<text>>,
                out |-> r1.result, was |-> Null]
     /\ UNCHANGED <<streak, env, calls>>

\* setTimeout(() => { if (error.value === message) error.value = null }, 4000)
ErrorTimeout ==
  /\ app.error # ""
  /\ app' = [app EXCEPT !.error = ""]
  /\ ret' = [NoRet EXCEPT !.op = "errorTimeout"]
  /\ UNCHANGED <<storage, idCount, streak, env, db, calls>>

----------------------------------------------------------------------------
(* SpecReply: in each configuration of the build, and with or without the
   owner_id column of answers, an account registers on the page and replies to
   any question id, while rooms and questions are created, questions deleted
   and the session ended from other pages *)

FacadeCreateQuestion(roomId, text, ownerId) ==
  LET r == dataApi_createQuestion(env, storage, db, idCount + 1, roomId, text, ownerId)
  IN /\ r.result.kind = "ok" => idCount < MaxIds
     /\ callOn("createQuestion", idCount + 1, <<roomId, text>>, r)
     /\ idCount' = IF r.result.kind = "ok" THEN idCount + 1 ELSE idCount

FacadeCreateAnswer(questionId, text, role, ownerId) ==
  LET r == dataApi_createAnswer(env, storage, db, idCount + 1, questionId, text,
                                role, ownerId)
  IN /\ r.result.kind = "ok" => idCount < MaxIds
     /\ callOn("createAnswer", questionId, <<text, role>>, r)
     /\ idCount' = IF r.result.kind = "ok" THEN idCount + 1 ELSE idCount

InitReply ==
  /\ storage = Missing
  /\ idCount = 0
  /\ ret = NoRet
  /\ streak = NoStreak
  /\ env \in {ForceLocal, [useLocal |-> FALSE, supabase |-> FALSE], Remote}
  /\ db \in {[EmptyDb EXCEPT !.ownerColumn = b] : b \in BOOLEAN}
  /\ calls = NoCalls
  /\ app = NoApp

NextReply ==
  \/ HandleRegister("n1", "student", "a@x", "p1")
  \/ FacadeLogoutUser
  \/ FacadeCreateRoom("K1", "n1", "ch1")
  \/ FacadeCreateQuestion("r1", "t1", Undefined)
  \/ \E q \in Ids : FacadeCreateAnswer(q, "t1", "student", Undefined)
  \/ \E q \in Ids : FacadeDeleteQuestion(q)
  \/ \E q \in Ids : HandleReply(q, "t1")
  \/ ErrorTimeout

SpecReply == InitReply /\ [][NextReply]_vars

\* no question with this id in the store that serves the build
missingParent(e, store, d, questionId) ==
  IF isRemote(e)
  THEN findIndexById(d.questions, questionId) = 0
  ELSE questionId \notin questionIds(store)

\* the call gave up and left everything as it was: no answer, no id used, no
\* XP in either store or on the page, and handleReply shows the message
rejectedUnchanged ==
  /\ ret'.out.kind = "throw"
  /\ storage' = storage
  /\ db' = db
  /\ idCount' = idCount
  /\ app'.profile = app.profile
  /\ app'.questions = app.questions
  /\ ret'.op = "handleReply" => app'.error = ret'.out.value

MissingParentLocalWitness ==
  /\ ret.op = "handleReply"
  /\ ret.out = Threw("question not found")
  /\ ~isRemote(env)
  /\ Store.questions # <<>>
  /\ ret.target \notin questionIds(Store)
  /\ app.profile.xp > 0

----------------------------------------------------------------------------
(* SpecLoad: one operation of the local store on a stored document that is
   missing, unparseable, null, or an object with any subset of the fields of
   a document the store wrote, with or without the older single `profile` *)

\* the document after registerUser, createRoom, createQuestion, createAnswer,
\* two reactions and addXp
FullDocument ==
  localApi_addXp(
    localApi_addAnswerReaction(
      localApi_addQuestionReaction(
        localApi_createAnswer(
          localApi_createQuestion(
            localApi_createRoom(
              localApi_registerUser(Missing, "u1", "n1", "student", "a@x", "p1").storage,
              "r1", "K1", "n1", "ch1").storage,
            1, "r1", "t1", "u1").storage,
          2, 1, "t1", "student", "u1").storage,
        1, "like", "u1").storage,
      2, "thanks", "u1").storage,
    3 * XpUnit).storage

StoreFields == DOMAIN EmptyStore

\* the profile an older version of the store kept for its single user
LegacyProfile == [xp |-> XpUnit, level |-> 1, avatarStage |-> 0]

Documents ==
  {[kind |-> "object", doc |-> [f \in F |-> FullDocument.doc[f]]] :
     F \in SUBSET DOMAIN FullDocument.doc}
  \cup {[kind |-> "object",
         doc |-> [f \in F |-> FullDocument.doc[f]] @@ [profile |-> LegacyProfile]] :
          F \in SUBSET DOMAIN FullDocument.doc}
  \cup {Missing, [kind |-> "unparseable", doc |-> NoDoc], [kind |-> "null", doc |-> NoDoc]}

\* the operation `op` of localApi on the document `raw`
localCall(op, target, args, raw) ==
  CASE op = "setCurrentUserId" -> localApi_setCurrentUserId(raw, args[1])
    [] op = "registerUser" ->
         localApi_registerUser(raw, args[5], args[1], args[2], args[3], args[4])
    [] op = "loginUser" -> localApi_loginUser(raw, args[1], args[2])
    [] op = "logoutUser" -> localApi_logoutUser(raw)
    [] op = "getCurrentUser" -> localApi_getCurrentUser(raw)
    [] op = "updateAvatar" -> localApi_updateAvatar(raw, args[1])
    [] op = "updateDisplayName" -> localApi_updateDisplayName(raw, args[1])
    [] op = "listUserAvatars" -> localApi_listUserAvatars(raw, {args[i] : i \in DOMAIN args})
    [] op = "listUserLevels" -> localApi_listUserLevels(raw, {args[i] : i \in DOMAIN args})
    [] op = "listJoinedRooms" -> localApi_listJoinedRooms(raw)
    [] op = "createRoom" -> localApi_createRoom(raw, args[4], args[1], args[2], args[3])
    [] op = "joinRoom" -> localApi_joinRoom(raw, args[1])
    [] op = "listQuestions" -> localApi_listQuestions(raw, args[1])
    [] op = "createQuestion" ->
         localApi_createQuestion(raw, target, args[1], args[2], args[3])
    [] op = "createAnswer" ->
         localApi_createAnswer(raw, args[4], target, args[1], args[2], args[3])
    [] op = "addQuestionReaction" ->
         localApi_addQuestionReaction(raw, target, args[1], args[2])
    [] op = "addAnswerReaction" ->
         localApi_addAnswerReaction(raw, target, args[1], args[2])
    [] op = "updateQuestionStatus" -> localApi_updateQuestionStatus(raw, target, args[1])
    [] op = "updateQuestionText" -> localApi_updateQuestionText(raw, target, args[1])
    [] op = "updateAnswerText" -> localApi_updateAnswerText(raw, target, args[1])
    [] op = "deleteQuestion" -> localApi_deleteQuestion(raw, target)
    [] op = "deleteAnswer" -> localApi_deleteAnswer(raw, target)
    [] op = "getProfile" -> localApi_getProfile(raw)
    [] op = "addXp" -> localApi_addXp(raw, target)

\* the first operation on the document as it was found; `was` keeps the document
LocalCall(op, target, args) ==
  LET r == localCall(op, target, args, storage)
  IN /\ ret = NoRet
     /\ storage' = r.storage
     /\ ret' = [op |-> op, target |-> target, args |-> args, out |-> r.result,
                was |-> storage]
     /\ idCount' = IF op \in {"createQuestion", "createAnswer"} /\ r.result.kind = "ok"
                   THEN idCount + 1
                   ELSE idCount
     /\ UNCHANGED idle

InitLoad ==
  /\ storage \in Documents
  /\ idCount = 2
  /\ ret = NoRet
  /\ streak = NoStreak
  /\ LocalOnly

NextLoad ==
  \/ \E u \in {"u1", Undefined} : LocalCall("setCurrentUserId", 0, <<u>>)
  \/ \E e \in {"a@x", "b@x"} : LocalCall("registerUser", 0, <<"n2", "student", e, "p1", "u2">>)
  \/ \E pw \in Passwords : LocalCall("loginUser", 0, <<"a@x", pw>>)
  \/ LocalCall("logoutUser", 0, <<>>)
  \/ LocalCall("getCurrentUser", 0, <<>>)
  \/ LocalCall("updateAvatar", 0, <<"img">>)
  \/ LocalCall("updateDisplayName", 0, <<"n2">>)
  \/ LocalCall("listUserAvatars", 0, <<"u1", "u2">>)
  \/ LocalCall("listUserLevels", 0, <<"u1", "u2">>)
  \/ LocalCall("listJoinedRooms", 0, <<>>)
  \/ LocalCall("createRoom", 0, <<"K2", "n2", "ch1", "r2">>)
  \/ \E code \in RoomCodes : LocalCall("joinRoom", 0, <<code>>)
  \/ LocalCall("listQuestions", 0, <<"r1">>)
  \/ LocalCall("createQuestion", idCount + 1, <<"r1", "t2", "u1">>)
  \/ \E q \in {1, 2} : LocalCall("createAnswer", q, <<"t2", "student", "u1", idCount + 1>>)
  \/ \E q \in {1, 2}, u \in Users : LocalCall("addQuestionReaction", q, <<"like", u>>)
  \/ \E a \in {1, 2}, u \in Users : LocalCall("addAnswerReaction", a, <<"thanks", u>>)
  \/ \E q \in {1, 2} : LocalCall("updateQuestionStatus", q, <<"resolved">>)
  \/ \E q \in {1, 2} : LocalCall("updateQuestionText", q, <<"t2">>)
  \/ \E a \in {1, 2} : LocalCall("updateAnswerText", a, <<"t2">>)
  \/ \E q \in {1, 2} : LocalCall("deleteQuestion", q, <<>>)
  \/ \E a \in {1, 2} : LocalCall("deleteAnswer", a, <<>>)
  \/ LocalCall("getProfile", 0, <<>>)
  \/ \E amount \in {-XpUnit, XpUnit} : LocalCall("addXp", amount, <<>>)

SpecLoad == InitLoad /\ [][NextLoad]_vars

\* the empty value of a field of the store
emptyOf(f) ==
  CASE f = "profiles" -> NoProfiles
    [] f \in {"questionReactions", "answerReactions"} -> EmptyBag
    [] f = "currentUserId" -> Undefined
    [] OTHER -> <<>>

\* the document with each field it lacks as empty; all empty when it is no object
filled(raw) ==
  [f \in StoreFields |->
     IF raw.kind = "object" /\ f \in DOMAIN raw.doc THEN raw.doc[f] ELSE emptyOf(f)]

\* the same, with the older single `profile` under the document's currentUserId
\* where profiles has no entry for it
filledWithProfile(raw) ==
  LET base == filled(raw)
  IN IF /\ raw.kind = "object"
        /\ "profile" \in DOMAIN raw.doc
        /\ base.currentUserId # Undefined
        /\ base.currentUserId \notin DOMAIN base.profiles
     THEN [base EXCEPT !.profiles = (base.currentUserId :> raw.doc.profile) @@ @]
     ELSE base

\* the store reads `doc` as `shape`, and the operation done on the document
\* returned and stored what it returns and stores on `shape`
toleratedAs(doc, shape) ==
  /\ loadStore(doc) = shape
  /\ ret.op # "none" =>
       /\ ret.out = localCall(ret.op, ret.target, ret.args, saveStore(shape)).result
       /\ Store = loadStore(localCall(ret.op, ret.target, ret.args, saveStore(shape)).storage)

\* the document the last operation found, or the stored one before any
found == IF ret.op = "none" THEN storage ELSE ret.was

\* C10 as stated: whatever the stored document (missing, unparseable, or an
\* object lacking any subset of its fields), every operation of the local
\* store does what it does on the document with each missing field as empty
\* (lists empty, profiles the empty map), and on all-empty for a document
\* that is no object.
CorruptStoreTolerance == toleratedAs(found, filled(found))

\* C10, amended: the same, except that a document that carries the older
\* single `profile` and a currentUserId without an entry in profiles is read
\* with that profile under that id, so that its missing profiles is not empty.
CorruptStoreToleranceWithProfile == toleratedAs(found, filledWithProfile(found))

\* createQuestion ran on an object with rooms but without questions and
\* without profiles, with the older `profile`: one question is stored, the
\* rooms are the document's and the profile is kept
CorruptStoreToleranceWitness ==
  /\ ret.op = "createQuestion"
  /\ ret.was.kind = "object"
  /\ {"rooms", "currentUserId", "profile"} \subseteq DOMAIN ret.was.doc
  /\ {"questions", "profiles"} \cap DOMAIN ret.was.doc = {}
  /\ Len(Store.questions) = 1
  /\ Store.rooms = ret.was.doc.rooms
  /\ Store.profiles = (ret.was.doc.currentUserId :> ret.was.doc.profile)

\* an operation ran on an unparseable document and the store is all empty
\* but for what the operation added
CorruptStoreUnparseableWitness ==
  /\ ret.op = "createRoom"
  /\ ret.was.kind = "unparseable"
  /\ Len(Store.rooms) = 1
  /\ Store.questions = <<>>

----------------------------------------------------------------------------
(* data.ts: the remote branches of deleteAnswer, updateQuestionStatus,
   updateQuestionText and updateAnswerText.  A delete or update reaches the
   rows its policy lets the session see; .select() gives back the rows
   reached. *)

\* deleteAnswer that reports a delete of zero rows as `false`
deleteAnswerFalseOnZeroRows(d, answerId) ==
  LET ai == findIndexById(d.answers, answerId)
  IN IF ai = 0 \/ ~ownerOrStaff(d, d.answers[ai])
     THEN [db |-> d, result |-> Ok(FALSE)]
     ELSE [db |-> [d EXCEPT !.answers = splice1(@, ai),
                            !.answer_reactions = keepRows(@, "answer_id", {answerId})],
           result |-> Ok(TRUE)]

\* the remote branch of dataApi.deleteAnswer
supabase_deleteAnswer(d, answerId) ==
  LET ai == findIndexById(d.answers, answerId)
  IN IF ai = 0 \/ ~ownerOrStaff(d, d.answers[ai])
     THEN [db |-> d, result |-> Threw("no permission to delete")]
     ELSE [db |-> [d EXCEPT !.answers = splice1(@, ai),
                            !.answer_reactions = keepRows(@, "answer_id", {answerId})],
           result |-> Ok(TRUE)]

\* .from("questions").update({ [field]: value }).eq("id", questionId)
\*   .select("*, answers(*)").maybeSingle(), then data ? mapQuestion(data) : null
updateQuestionRow(d, questionId, field, value) ==
  LET qi == findIndexById(d.questions, questionId)
      row == [d.questions[qi] EXCEPT ![field] = value]
  IN IF qi = 0 \/ ~ownerOrStaff(d, d.questions[qi])
     THEN [db |-> d, result |-> Ok(Null)]
     ELSE [db |-> [d EXCEPT !.questions[qi] = row],
           result |-> Ok(mapQuestion(row, answersOf(d, questionId)))]

\* the remote branch of dataApi.updateQuestionStatus
supabase_updateQuestionStatus(d, questionId, status) ==
  updateQuestionRow(d, questionId, "status", status)

\* the remote branch of dataApi.updateQuestionText
supabase_updateQuestionText(d, questionId, text) ==
  updateQuestionRow(d, questionId, "text", text)

\* the remote branch of dataApi.updateAnswerText
supabase_updateAnswerText(d, answerId, text) ==
  LET ai == findIndexById(d.answers, answerId)
      row == [d.answers[ai] EXCEPT !.text = text]
  IN IF ai = 0 \/ ~ownerOrStaff(d, d.answers[ai])
     THEN [db |-> d, result |-> Ok(Null)]
     ELSE [db |-> [d EXCEPT !.answers[ai] = row], result |-> Ok(mapAnswer(row))]

dataApi_deleteAnswer(e, raw, d, answerId) ==
  IF isRemote(e) THEN remotely(raw, supabase_deleteAnswer(d, answerId))
  ELSE served(localApi_deleteAnswer(raw, answerId), d)

dataApi_updateQuestionStatus(e, raw, d, questionId, status) ==
  IF isRemote(e) THEN remotely(raw, supabase_updateQuestionStatus(d, questionId, status))
  ELSE served(localApi_updateQuestionStatus(raw, questionId, status), d)

dataApi_updateQuestionText(e, raw, d, questionId, text) ==
  IF isRemote(e) THEN remotely(raw, supabase_updateQuestionText(d, questionId, text))
  ELSE served(localApi_updateQuestionText(raw, questionId, text), d)

dataApi_updateAnswerText(e, raw, d, answerId, text) ==
  IF isRemote(e) THEN remotely(raw, supabase_updateAnswerText(d, answerId, text))
  ELSE served(localApi_updateAnswerText(raw, answerId, text), d)

FacadeDeleteAnswer(answerId) ==
  /\ callOn("deleteAnswer", answerId, <<>>, dataApi_deleteAnswer(env, storage, db, answerId))
  /\ UNCHANGED idCount

FacadeUpdateQuestionStatus(questionId, status) ==
  /\ callOn("updateQuestionStatus", questionId, <<status>>,
            dataApi_updateQuestionStatus(env, storage, db, questionId, status))
  /\ UNCHANGED idCount

FacadeUpdateQuestionText(questionId, text) ==
  /\ callOn("updateQuestionText", questionId, <<text>>,
            dataApi_updateQuestionText(env, storage, db, questionId, text))
  /\ UNCHANGED idCount

FacadeUpdateAnswerText(answerId, text) ==
  /\ callOn("updateAnswerText", answerId, <<text>>,
            dataApi_updateAnswerText(env, storage, db, answerId, text))
  /\ UNCHANGED idCount

----------------------------------------------------------------------------
(* SpecModerate: in the local-only build and against Supabase, two students
   and a teacher who share a room sign in and out, ask, answer, react, edit,
   resolve, reopen and delete, each on any id *)

\* the build after three registrations, createRoom by the teacher and logoutUser
Staffed(e) ==
  LET one == dataApi_registerUser(e, Missing, EmptyDb, "u1", "n1", "student", "a@x", "p1")
      two == dataApi_registerUser(e, one.storage, one.db, "u2", "n2", "student", "b@x", "p1")
      three == dataApi_registerUser(e, two.storage, two.db, "u3", "n3", "teacher", "c@x", "p1")
      roomed == dataApi_createRoom(e, three.storage, three.db, "r1", "K1", "n1", "ch1")
  IN dataApi_logoutUser(e, roomed.storage, roomed.db)

InitModerate ==
  /\ env \in {ForceLocal, Remote}
  /\ storage = Staffed(env).storage
  /\ db = Staffed(env).db
  /\ idCount = 0
  /\ ret = NoRet
  /\ streak = NoStreak
  /\ calls = NoCalls
  /\ app = NoApp

\* currentUser.value?.id and currentUser.value?.role of the page that calls;
\* u1 asks and reacts, u2 answers
me == Store.currentUserId

myRole == IF me = "u3" THEN "teacher" ELSE "student"

NextModerate ==
  \/ \E email \in {"a@x", "b@x", "c@x"} : FacadeLoginUser(email, "p1")
  \/ FacadeLogoutUser
  \/ me = "u1" /\ FacadeCreateQuestion("r1", "t1", me)
  \/ \E q \in Ids : me = "u2" /\ FacadeCreateAnswer(q, "t1", myRole, me)
  \/ \E q \in Ids : FacadeDeleteQuestion(q)
  \/ \E a \in Ids : FacadeDeleteAnswer(a)
  \/ \E q \in Ids, status \in {"open", "resolved"} : FacadeUpdateQuestionStatus(q, status)
  \/ \E q \in Ids : FacadeUpdateQuestionText(q, "t2")
  \/ \E a \in Ids : FacadeUpdateAnswerText(a, "t2")
  \/ \E q \in Ids : /\ env.useLocal /\ me = "u1"
                     /\ AddQuestionReaction(q, "like", me) /\ UNCHANGED idle
  \/ \E a \in Ids : /\ env.useLocal /\ me = "u1"
                     /\ AddAnswerReaction(a, "like", me) /\ UNCHANGED idle
  \/ \E op \in {"addQuestionReaction", "addAnswerReaction"}, target \in Ids :
       me = "u1" /\ db.rowCount < MaxLikes /\ ReactionSelect(1, op, target, "like", me)
  \/ ReactionWrite(1)
  \/ ReactionFetch(1)
  \/ ReactionRecount(1)

SpecModerate == InitModerate /\ [][NextModerate]_vars

\* no row of `rows` names `id` in `column`
noRowOf(rows, column, id) == \A i \in 1..Len(rows) : rows[i][column] # id

\* C11: against Supabase, a deleteQuestion (deleteAnswer) call that deletes no
\* row throws the permission error and leaves every table as it was; a call
\* that deletes returns true, and then the question, its answers, its
\* reaction rows and the reaction rows of its answers are gone (the answer and
\* its reaction rows are gone).  No call returns false.
RemoteDeleteOutcome ==
  [][isRemote(env) =>
       /\ \A q \in Ids : FacadeDeleteQuestion(q) =>
            IF db'.questions = db.questions
            THEN ret'.out = Threw("no permission to delete") /\ db' = db
            ELSE /\ ret'.out = Ok(TRUE)
                 /\ noRowOf(db'.questions, "id", q)
                 /\ noRowOf(db'.answers, "question_id", q)
                 /\ noRowOf(db'.question_reactions, "question_id", q)
                 /\ \A a \in answerRowIds(db, q) :
                      noRowOf(db'.answer_reactions, "answer_id", a)
       /\ \A a \in Ids : FacadeDeleteAnswer(a) =>
            IF db'.answers = db.answers
            THEN ret'.out = Threw("no permission to delete") /\ db' = db
            ELSE /\ ret'.out = Ok(TRUE)
                 /\ noRowOf(db'.answers, "id", a)
                 /\ noRowOf(db'.answer_reactions, "answer_id", a)]_vars

\* two ids were given out and a reaction row was inserted; after the delete
\* of question 1 returned true, no table holds a row
RemoteDeleteOutcomeWitness ==
  /\ isRemote(env)
  /\ ret.op = "deleteQuestion"
  /\ ret.out = Ok(TRUE)
  /\ ret.target = 1
  /\ idCount = 2
  /\ db.rowCount >= 1
  /\ db.questions = <<>> /\ db.answers = <<>>
  /\ db.question_reactions = <<>> /\ db.answer_reactions = <<>>

\* a student's delete of another student's question threw, and it is there
RemoteDeleteRejectedWitness ==
  /\ isRemote(env)
  /\ ret.op = "deleteQuestion"
  /\ ret.out = Threw("no permission to delete")
  /\ ~noRowOf(db.questions, "id", ret.target)

\* the last call was `op` on the Supabase build and returned null
remoteNull(ops) ==
  /\ isRemote(env)
  /\ ret.op \in ops
  /\ ret.out.kind = "ok"
  /\ ret.out.value = Null

\* C12: against Supabase, an updateQuestionStatus, updateQuestionText or
\* updateAnswerText call that came back with null (the not-found result) was
\* given the id of no question (answer) of the table: on an entity that
\* exists, a rejection by the update policy is an error, never null.
ZeroRowsUpdateExplicit ==
  /\ remoteNull({"updateQuestionStatus", "updateQuestionText"}) =>
       noRowOf(db.questions, "id", ret.target)
  /\ remoteNull({"updateAnswerText"}) => noRowOf(db.answers, "id", ret.target)

\* C13: in both backends, deleteQuestion of an id that no stored question has
\* ends the way the local store ends it, by returning false (not found), which
\* is not the way a delete without permission ends.
DeleteMissingNotFound ==
  [][\A q \in Ids :
       (FacadeDeleteQuestion(q) /\ missingParent(env, Store, db, q)) =>
         ret'.out = localApi_deleteQuestion(Missing, q).result]_vars

----------------------------------------------------------------------------
(* data.ts: listQuestions *)

\* the remote branch of dataApi.listQuestions: the room's rows newest first,
\* each with its answers and with the counts of the reaction rows
supabase_listQuestions(d, roomId) ==
  LET inRoom(row) == row.room_id = roomId
      data == descending(SelectSeq(d.questions, inRoom))
      counted(answer) ==
        [answer EXCEPT !.reactions = recount(d.answer_reactions, "answer_id", answer.id)]
      answers(row) ==
        [k \in 1..Len(answersOf(d, row.id)) |-> counted(answersOf(d, row.id)[k])]
  IN [db |-> d,
      result |-> Ok([i \in 1..Len(data) |->
                       [mapQuestion(data[i], answers(data[i])) EXCEPT
                          !.reactions = recount(d.question_reactions, "question_id",
                                                data[i].id)]])]

dataApi_listQuestions(e, raw, d, roomId) ==
  IF isRemote(e) THEN remotely(raw, supabase_listQuestions(d, roomId))
  ELSE served(localApi_listQuestions(raw, roomId), d)

----------------------------------------------------------------------------
(* App.vue: handleLogin, handleLogout, handleJoinRoom, refreshQuestions,
   handleSubmitQuestion and handleDeleteQuestion.  userAvatars and userLevels,
   which refreshQuestions also loads, are not part of the state; confirm() is
   answered with yes. *)

\* refreshQuestions(): the page after it
refreshQuestions(e, raw, d, page) ==
  LET r == dataApi_listQuestions(e, raw, d, page.room)
  IN IF page.room = Undefined THEN page
     ELSE IF r.result.kind = "throw" THEN [page EXCEPT !.error = r.result.value]
     ELSE [page EXCEPT !.questions = r.result.value]

\* the end of a handler of the page: `r` is the last call of dataApi it made
handled(op, target, args, r, page, was) ==
  /\ storage' = r.storage
  /\ db' = r.db
  /\ app' = watchRoom(app, page)
  /\ ret' = [op |-> op, target |-> target, args |-> args, out |-> r.result, was |-> was]
  /\ UNCHANGED <<streak, env, calls>>

\* AuthPanel, which emits login, is rendered only without a currentUser
HandleLogin(email, password) ==
  LET r1 == dataApi_loginUser(env, storage, db, email, password)
      r2 == dataApi_listJoinedRooms(env, r1.storage, r1.db)
      r3 == dataApi_getProfile(env, r2.storage, r2.db)
  IN /\ app.currentUser = NoUser
     /\ IF r1.result.kind = "throw"
        THEN handled("handleLogin", 0, <<email>>, r1,
                     [app EXCEPT !.error = r1.result.value], Null)
        ELSE IF r1.result.value = Null
        THEN handled("handleLogin", 0, <<email>>, r1,
                     [app EXCEPT !.error = "login failed"], Null)
        ELSE handled("handleLogin", 0, <<email>>, [r3 EXCEPT !.result = r1.result],
                     [app EXCEPT !.currentUser = r1.result.value,
                                 !.joinedRooms = r2.result.value,
                                 !.profile = r3.result.value], Null)
     /\ UNCHANGED idCount

\* the logout button is in the profile panel, rendered only with a currentUser
HandleLogout ==
  LET r1 == dataApi_logoutUser(env, storage, db)
  IN /\ app.currentUser # NoUser
     /\ IF r1.result.kind = "throw"
        THEN handled("handleLogout", 0, <<>>, r1, app, Null)
        ELSE handled("handleLogout", 0, <<>>, r1,
                     [app EXCEPT !.currentUser = NoUser, !.room = Undefined,
                                 !.questions = <<>>, !.joinedRooms = <<>>], Null)
     /\ UNCHANGED idCount

\* RoomJoin is rendered with a currentUser and no room
HandleJoinRoom(code) ==
  LET r1 == dataApi_joinRoom(env, storage, db, code)
      r2 == dataApi_listJoinedRooms(env, r1.storage, r1.db)
      joined == [app EXCEPT !.room = r1.result.value.id, !.joinedRooms = r2.result.value]
  IN /\ app.currentUser # NoUser
     /\ app.room = Undefined
     /\ IF r1.result.kind = "throw"
        THEN handled("handleJoinRoom", 0, <<code>>, r1,
                     [app EXCEPT !.error = r1.result.value], Null)
        ELSE IF r1.result.value = Null
        THEN handled("handleJoinRoom", 0, <<code>>, r1,
                     [app EXCEPT !.error = "room not found"], Null)
        ELSE handled("handleJoinRoom", 0, <<code>>, [r2 EXCEPT !.result = r1.result],
                     refreshQuestions(env, r2.storage, r2.db, joined), Null)
     /\ UNCHANGED idCount

\* `was`: the profile getProfile() gives before the question is posted
HandleSubmitQuestion(text) ==
  LET user == app.currentUser
      before == dataApi_getProfile(env, storage, db).result.value
      r1 == dataApi_createQuestion(env, storage, db, idCount + 1, app.room, text, user.id)
      r2 == dataApi_addXp(env, r1.storage, r1.db, XpUnit)
  IN /\ user # NoUser
     /\ app.room # Undefined
     /\ IF r1.result.kind = "throw"
        THEN /\ handled("handleSubmitQuestion", idCount + 1, <<text>>, r1,
                        [app EXCEPT !.error = r1.result.value], before)
             /\ UNCHANGED idCount
        ELSE /\ idCount < MaxIds
             /\ idCount' = idCount + 1
             /\ IF user.role # "teacher"
                THEN handled("handleSubmitQuestion", idCount + 1, <<text>>,
                             [r2 EXCEPT !.result = r1.result],
                             refreshQuestions(env, r2.storage, r2.db,
                                              [app EXCEPT !.profile = r2.result.value]),
                             before)
                ELSE handled("handleSubmitQuestion", idCount + 1, <<text>>, r1,
                             refreshQuestions(env, r1.storage, r1.db, app), before)

\* QuestionList.vue: canDeleteQuestion(question)
canDeleteQuestion(user, question) ==
  \/ user.role = "student" /\ question.ownerId = user.id
  \/ user.role = "teacher"

\* the delete button of a question listed on the page
HandleDeleteQuestion(questionId) ==
  LET user == app.currentUser
      ti == findIndexById(app.questions, questionId)
      r1 == dataApi_deleteQuestion(env, storage, db, questionId)
      r2 == dataApi_addXp(env, r1.storage, r1.db, -XpUnit)
  IN /\ user # NoUser
     /\ ti # 0
     /\ canDeleteQuestion(user, app.questions[ti])
     /\ IF r1.result.kind = "throw"
        THEN handled("handleDeleteQuestion", questionId, <<>>, r1,
                     [app EXCEPT !.error = r1.result.value], Null)
        ELSE IF app.questions[ti].ownerId = user.id
        THEN handled("handleDeleteQuestion", questionId, <<>>,
                     [r2 EXCEPT !.result = r1.result],
                     refreshQuestions(env, r2.storage, r2.db,
                                      [app EXCEPT !.profile = r2.result.value]), Null)
        ELSE handled("handleDeleteQuestion", questionId, <<>>, r1,
                     refreshQuestions(env, r1.storage, r1.db, app), Null)
     /\ UNCHANGED idCount

----------------------------------------------------------------------------
(* SpecPost: in the local-only build and against Supabase, a student and a
   teacher, each with some xp already, sign in on the page, enter the room,
   post questions and delete the ones the page lets them delete *)

\* xp an account starts with, in XpUnit-ths of a point
StartXp == {0, XpUnit, 3 * XpUnit}

\* the build after registerUser (student), addXp, registerUser (teacher),
\* createRoom, addXp and logoutUser
Stocked(e, x1, x3) ==
  LET one == dataApi_registerUser(e, Missing, EmptyDb, "u1", "n1", "student", "a@x", "p1")
      oneXp == dataApi_addXp(e, one.storage, one.db, x1)
      three == dataApi_registerUser(e, oneXp.storage, oneXp.db, "u3", "n3", "teacher",
                                    "c@x", "p1")
      roomed == dataApi_createRoom(e, three.storage, three.db, "r1", "K1", "n1", "ch1")
      threeXp == dataApi_addXp(e, roomed.storage, roomed.db, x3)
  IN dataApi_logoutUser(e, threeXp.storage, threeXp.db)

InitPost ==
  /\ env \in {ForceLocal, Remote}
  /\ \E x1 \in StartXp, x3 \in StartXp :
       \E stocked \in {Stocked(env, x1, x3)} :
         /\ storage = stocked.storage
         /\ db = stocked.db
  /\ idCount = 0
  /\ ret = NoRet
  /\ streak = NoStreak
  /\ calls = NoCalls
  /\ app = NoApp

NextPost ==
  \/ \E email \in {"a@x", "c@x"} : HandleLogin(email, "p1")
  \/ HandleLogout
  \/ HandleJoinRoom("K1")
  \/ HandleSubmitQuestion("t1")
  \/ \E q \in Ids : HandleDeleteQuestion(q)

SpecPost == InitPost /\ [][NextPost]_vars

\* C14: when a user deletes, through handleDeleteQuestion, the question that
\* their handleSubmitQuestion has just posted, the xp getProfile() gives is
\* again what it was before the post, for a student and for a teacher.
XpGrantDeductSymmetry ==
  [][\A q \in Ids :
       (/\ ret.op = "handleSubmitQuestion"
        /\ ret.out.kind = "ok"
        /\ ret.target = q
        /\ HandleDeleteQuestion(q)) =>
         dataApi_getProfile(env', storage', db').result.value.xp = ret.was.xp]_vars

----------------------------------------------------------------------------
(* C15: the lifecycle of a question *)

\* the status the backend in use holds for the question, "none" without one
statusOf(e, raw, d, questionId) ==
  LET held == IF isRemote(e) THEN d.questions ELSE loadStore(raw).questions
      qi == findIndexById(held, questionId)
  IN IF qi = 0 THEN "none" ELSE held[qi].status

\* the backend in use lets the caller update the question: the local store
\* lets everyone, Supabase the rows the "questions update" policy shows
mayUpdate(e, d, questionId) ==
  \/ ~isRemote(e)
  \/ ownerOrStaff(d, d.questions[findIndexById(d.questions, questionId)])

\* C15: a question appears only as a fresh one with status open, its status is
\* open or resolved, only updateQuestionStatus changes it, a question that is
\* gone never comes back, updateQuestionStatus on a question that exists
\* sets either status whatever the one it has, and on one that is gone returns
\* null and changes nothing.
QuestionLifecycle ==
  [][\A q \in Ids :
       LET before == statusOf(env, storage, db, q)
           after == statusOf(env', storage', db', q)
       IN /\ after \in {"none", "open", "resolved"}
          /\ (before = "none" /\ after # "none") =>
               (after = "open" /\ idCount = q - 1 /\ idCount' = q)
          /\ (before # "none" /\ after # "none" /\ after # before) =>
               \E s \in {"open", "resolved"} : FacadeUpdateQuestionStatus(q, s)
          /\ \A s \in {"open", "resolved"} :
               FacadeUpdateQuestionStatus(q, s) =>
                 IF before = "none"
                 THEN ret'.out = Ok(Null) /\ storage' = storage /\ db' = db
                 ELSE mayUpdate(env, db, q) =>
                        (after = s /\ ret'.out.value.status = s)]_vars

\* a question of the local store has been set to resolved
QuestionLifecycleWitness ==
  /\ env.useLocal
  /\ ret.op = "updateQuestionStatus"
  /\ ret.args = <<"resolved">>
  /\ ret.out.kind = "ok"
  /\ statusOf(env, storage, db, ret.target) = "resolved"

\* a question that was resolved is open again, with an answer given meanwhile
QuestionReopenedWitness ==
  /\ ret.op = "updateQuestionStatus"
  /\ ret.args = <<"open">>
  /\ statusOf(env, storage, db, ret.target) = "open"
  /\ \E i \in 1..Len(Store.questions) :
       Store.questions[i].id = ret.target /\ Store.questions[i].answers # <<>>

\* updateQuestionStatus on a question that was deleted
QuestionGoneWitness ==
  /\ ret.op = "updateQuestionStatus"
  /\ ret.target <= idCount
  /\ ret.out = Ok(Null)
  /\ statusOf(env, storage, db, ret.target) = "none"

----------------------------------------------------------------------------
(* C16: who changes the status of a question *)

\* ownerId of the question the backend in use holds
ownerOf(e, raw, d, questionId) ==
  IF isRemote(e)
  THEN d.questions[findIndexById(d.questions, questionId)].owner_id
  ELSE questionById(loadStore(raw), questionId).ownerId

\* C16: a step that changes the status of a question is taken by the student
\* who owns the question or by a teacher or TA; no other student changes it.
StatusChangeAuthorization ==
  [][\A q \in Ids :
       LET before == statusOf(env, storage, db, q)
           after == statusOf(env', storage', db', q)
       IN (before # "none" /\ after # "none" /\ after # before) =>
            \/ me # Undefined /\ me = ownerOf(env, storage, db, q)
            \/ myRole \in {"teacher", "ta"}]_vars

----------------------------------------------------------------------------
(* SpecList: in the local-only build and against Supabase, student u1 posts
   questions in two rooms, answers them, deletes questions and answers and
   lists a room, starting with a question in each room and one answer.  Ids
   are given in creation order, the three posts of the start below 1. *)

FacadeListQuestions(roomId) ==
  /\ callOn("listQuestions", 0, <<roomId>>, dataApi_listQuestions(env, storage, db, roomId))
  /\ UNCHANGED idCount

ListIds == (-2)..MaxIds

\* the build after the three accounts and room r1, and then: the teacher
\* creates room r2, u1 logs in, posts a question in r2 and one in r1 and
\* answers the latter
InitList ==
  /\ env \in {ForceLocal, Remote}
  /\ \E staff \in {Staffed(env)} :
     \E teacher \in {dataApi_loginUser(env, staff.storage, staff.db, "c@x", "p1")} :
     \E roomed \in {dataApi_createRoom(env, teacher.storage, teacher.db,
                                       "r2", "K2", "n2", "ch1")} :
     \E student \in {dataApi_loginUser(env, roomed.storage, roomed.db, "a@x", "p1")} :
     \E first \in {dataApi_createQuestion(env, student.storage, student.db,
                                          -2, "r2", "t1", "u1")} :
     \E second \in {dataApi_createQuestion(env, first.storage, first.db,
                                           -1, "r1", "t1", "u1")} :
     \E answered \in {dataApi_createAnswer(env, second.storage, second.db,
                                           0, -1, "t1", "student", "u1")} :
       /\ storage = answered.storage
       /\ db = answered.db
  /\ idCount = 0
  /\ ret = NoRet
  /\ streak = NoStreak
  /\ calls = NoCalls
  /\ app = NoApp

NextList ==
  \/ \E room \in {"r1", "r2"} : FacadeCreateQuestion(room, "t1", "u1")
  \/ \E q \in ListIds : FacadeCreateAnswer(q, "t1", "student", "u1")
  \/ \E q \in ListIds : FacadeDeleteQuestion(q)
  \/ \E a \in ListIds : FacadeDeleteAnswer(a)
  \/ \E room \in {"r1", "r2"} : FacadeListQuestions(room)

SpecList == InitList /\ [][NextList]_vars

\* the questions the backend in use holds for the room, as a set of ids
roomQuestionIds(e, raw, d, roomId) ==
  IF isRemote(e)
  THEN {d.questions[i].id : i \in {j \in 1..Len(d.questions) : d.questions[j].room_id = roomId}}
  ELSE LET held == loadStore(raw).questions
       IN {held[i].id : i \in {j \in 1..Len(held) : held[j].roomId = roomId}}

\* newest first: ids are given in creation order
newestFirst(s) == \A i \in 1..Len(s), j \in 1..Len(s) : i < j => s[i].id > s[j].id

oldestFirst(s) == \A i \in 1..Len(s), j \in 1..Len(s) : i < j => s[i].id < s[j].id

\* C17: createQuestion returns the question with status open, no reactions and
\* no answers, and listQuestions of its room right after it returns the
\* questions of that room and no other, newest first with the new question at
\* the head, each with its answers oldest first.
CreateQuestionListed ==
  [][/\ \A room \in {"r1", "r2"} :
          FacadeCreateQuestion(room, "t1", "u1") =>
            /\ ret'.out.kind = "ok"
            /\ ret'.out.value.id = idCount'
            /\ ret'.out.value.roomId = room
            /\ ret'.out.value.status = "open"
            /\ ret'.out.value.reactions = [like |-> 0, thanks |-> 0]
            /\ ret'.out.value.answers = <<>>
     /\ \A room \in {"r1", "r2"} :
          (/\ ret.op = "createQuestion"
           /\ ret.args[1] = room
           /\ FacadeListQuestions(room)) =>
            LET listed == ret'.out.value
            IN /\ ret'.out.kind = "ok"
               /\ listed[1] = ret.out.value
               /\ {listed[i].id : i \in 1..Len(listed)} =
                    roomQuestionIds(env, storage, db, room)
               /\ \A i \in 1..Len(listed) : listed[i].roomId = room
               /\ newestFirst(listed)
               /\ \A i \in 1..Len(listed) : oldestFirst(listed[i].answers)]_vars

\* the list of r1 after a question was posted there: two questions, the older
\* one with two answers, while r2 holds a question too
CreateQuestionListedWitness ==
  /\ ret.op = "listQuestions"
  /\ ret.args = <<"r1">>
  /\ idCount = 2
  /\ Len(ret.out.value) = 2
  /\ ret.out.value[1].id = 2
  /\ Len(ret.out.value[2].answers) = 2
  /\ roomQuestionIds(env, storage, db, "r2") # {}

----------------------------------------------------------------------------
(* C18: what updateQuestionStatus returns *)

\* the number of reaction rows per type the backend in use holds for the question
reactionRows(e, raw, d, questionId) ==
  IF isRemote(e)
  THEN recount(d.question_reactions, "question_id", questionId)
  ELSE [t \in Types |-> questionRows(loadStore(raw).questionReactions, questionId, t)]

\* the answers the backend in use holds for the question, oldest first
answersHeld(e, raw, d, questionId) ==
  IF isRemote(e)
  THEN answersOf(d, questionId)
  ELSE questionById(loadStore(raw), questionId).answers

\* C18: updateQuestionStatus(q, s) returns null and changes nothing when q does
\* not exist; otherwise (for a caller the backend lets update q) it returns q
\* with status s, with its answers, and with reaction counts equal to the
\* number of reaction rows per type that q has at that moment.
UpdateStatusResult ==
  [][\A q \in Ids, s \in {"open", "resolved"} :
       FacadeUpdateQuestionStatus(q, s) =>
         IF statusOf(env, storage, db, q) = "none"
         THEN ret'.out = Ok(Null) /\ storage' = storage /\ db' = db
         ELSE mayUpdate(env, db, q) =>
                /\ ret'.out.kind = "ok"
                /\ ret'.out.value.id = q
                /\ ret'.out.value.status = s
                /\ [i \in 1..Len(ret'.out.value.answers) |-> ret'.out.value.answers[i].id] =
                     [i \in 1..Len(answersHeld(env', storage', db', q)) |->
                        answersHeld(env', storage', db', q)[i].id]
                /\ \A t \in Types :
                     ret'.out.value.reactions[t] = reactionRows(env', storage', db', q)[t]]_vars

----------------------------------------------------------------------------
(* C19: memberships *)

\* the memberships the backend that serves the room operations holds, as
\* <<user, room>> pairs in stored order
membershipsHeld(e, raw, d) ==
  IF e.useLocal
  THEN [i \in 1..Len(loadStore(raw).memberships) |->
          <<loadStore(raw).memberships[i].userId, loadStore(raw).memberships[i].roomId>>]
  ELSE [i \in 1..Len(d.room_members) |->
          <<d.room_members[i].user_id, d.room_members[i].room_id>>]

\* store.currentUserId, resp. the user of supabase.auth.getUser()
signedIn(e, raw, d) == IF e.useLocal THEN loadStore(raw).currentUserId ELSE d.session

\* the rooms of that backend
roomsHeld(e, raw, d) == IF e.useLocal THEN loadStore(raw).rooms ELSE d.rooms

pairsOf(s) == {s[i] : i \in 1..Len(s)}

\* C19: there is at most one membership per (user, room); createRoom adds
\* exactly one membership, that of the logged-in creator in the new room, and
\* none when nobody is logged in; joinRoom with the code of a room adds the
\* membership of the logged-in user in that room only if there is none yet;
\* joinRoom with a code of no room returns null and adds nothing.
MembershipUniqueness ==
  [][LET before == membershipsHeld(env, storage, db)
         after == membershipsHeld(env', storage', db')
         user == signedIn(env, storage, db)
         rooms == roomsHeld(env, storage, db)
     IN /\ Len(after) = Cardinality(pairsOf(after))
        /\ \A code \in RoomCodes :
             (FacadeCreateRoom(code, "n1", "ch1") /\ ret'.out.kind = "ok") =>
               IF user = Undefined
               THEN after = before
               ELSE /\ Len(after) = Len(before) + 1
                    /\ pairsOf(after) = pairsOf(before) \cup {<<user, ret'.out.value.id>>}
                    /\ \A pair \in pairsOf(before) : pair[2] # ret'.out.value.id
        /\ \A code \in RoomCodes :
             FacadeJoinRoom(code) =>
               IF findRoomByCode(rooms, code) = 0 \/ ret'.out.kind = "throw"
               THEN /\ after = before
                    /\ ret'.out.kind = "ok" => ret'.out = Ok(Null)
               ELSE /\ ret'.out = Ok(rooms[findRoomByCode(rooms, code)])
                    /\ IF user = Undefined \/ <<user, ret'.out.value.id>> \in pairsOf(before)
                       THEN after = before
                       ELSE /\ Len(after) = Len(before) + 1
                            /\ pairsOf(after) =
                                 pairsOf(before) \cup {<<user, ret'.out.value.id>>}]_vars

\* a user has joined, by its code, a room that another user created, and
\* joins it once more
MembershipUniquenessWitness ==
  /\ ret.op = "joinRoom"
  /\ ret.out.kind = "ok"
  /\ ret.out.value # Null
  /\ \E a \in pairsOf(membershipsHeld(env, storage, db)),
        b \in pairsOf(membershipsHeld(env, storage, db)) :
       a[1] # b[1] /\ a[2] = b[2] /\ a[2] = ret.out.value.id
  /\ Len(Store.users) + Len(db.users) = 2
  /\ signedIn(env, storage, db) # Undefined

----------------------------------------------------------------------------
\* C20: whatever createRoom calls were made, no two rooms of the store have
\* the same code.
RoomCodeUniqueness ==
  \A i \in 1..Len(roomsHeld(env, storage, db)), j \in 1..Len(roomsHeld(env, storage, db)) :
    i # j => roomsHeld(env, storage, db)[i].code # roomsHeld(env, storage, db)[j].code

----------------------------------------------------------------------------
(* SpecRace: against a Supabase project holding one question, students u1 and
   u2 toggle reactions on it in calls that run concurrently, request by
   request; who is signed in changes while calls are in flight, so the calls
   of both users interleave in every order *)

InitRace ==
  /\ env = Remote
  /\ \E staff \in {Staffed(env)} :
     \E student \in {dataApi_loginUser(env, staff.storage, staff.db, "a@x", "p1")} :
     \E asked \in {dataApi_createQuestion(env, student.storage, student.db,
                                          1, "r1", "t1", "u1")} :
       /\ storage = asked.storage
       /\ db = asked.db
  /\ idCount = 1
  /\ ret = NoRet
  /\ streak = NoStreak
  /\ calls = NoCalls
  /\ app = NoApp

NextRace ==
  \/ \E email \in {"a@x", "b@x"} : FacadeLoginUser(email, "p1")
  \/ \E c \in 1..MaxCalls, type \in Types :
       ReactionSelect(c, "addQuestionReaction", 1, type, me)
  \/ \E c \in 1..MaxCalls : ReactionWrite(c)
  \/ \E c \in 1..MaxCalls : ReactionFetch(c)
  \/ \E c \in 1..MaxCalls : ReactionRecount(c)

SpecRace == InitRace /\ [][NextRace]_vars

\* the users who hold a reaction of the type on the question
reactingUsers(d, questionId, type) ==
  {d.question_reactions[i].user_id :
     i \in {j \in 1..Len(d.question_reactions) :
              /\ d.question_reactions[j].question_id = questionId
              /\ d.question_reactions[j].type = type}}

\* C21: however the requests of concurrent addQuestionReaction calls
\* interleave, the number of reaction rows per (question, type) is not
\* negative and not above the number of distinct users holding a reaction of
\* the type, and no two rows have the same (question, user, type).
RemoteCountBound ==
  /\ \A q \in Ids, t \in Types :
       /\ recount(db.question_reactions, "question_id", q)[t] >= 0
       /\ recount(db.question_reactions, "question_id", q)[t] <=
            Cardinality(reactingUsers(db, q, t))
  /\ \A i \in 1..Len(db.question_reactions), j \in 1..Len(db.question_reactions) :
       (/\ db.question_reactions[i].question_id = db.question_reactions[j].question_id
        /\ db.question_reactions[i].user_id = db.question_reactions[j].user_id
        /\ db.question_reactions[i].type = db.question_reactions[j].type) => i = j

\* both users hold a like on the question while two calls are in flight, one
\* of which is about to insert a like that is already there
RemoteCountBoundWitness ==
  /\ Cardinality(reactingUsers(db, 1, "like")) = 2
  /\ \E c \in 1..MaxCalls :
       /\ calls[c].pc = "write"
       /\ calls[c].type = "like"
       /\ calls[c].existing = 0
  /\ \E c \in 1..MaxCalls : calls[c].pc \in {"fetch", "recount"}

----------------------------------------------------------------------------
\* the two calls are for the same (question, user, type)
sameTuple(k, o) ==
  /\ k.op = o.op
  /\ k.target = o.target
  /\ k.userId = o.userId
  /\ k.type = o.type

\* C22: when two addQuestionReaction calls for the same (question, user, type)
\* overlap (both made their existence select before either wrote), then once
\* the second of them has written, the tuple is present if and only if it was
\* present before the two calls, as after running the two one after the other.
RacingTogglesSerializable ==
  [][\A c \in 1..MaxCalls, o \in 1..MaxCalls :
       (/\ c # o
        /\ calls[c].pc = "write"
        /\ calls[o].pc \in {"fetch", "recount"}
        /\ sameTuple(calls[c], calls[o])
        /\ calls[c].existing = calls[o].existing
        /\ ReactionWrite(c)) =>
         ((findReaction(db'.question_reactions, "question_id", calls[c].target,
                        calls[c].userId, calls[c].type) # 0)
            = (calls[c].existing # 0))]_vars

----------------------------------------------------------------------------
(* data.ts: the remote branch of addXp, one step per request to Supabase, so
   that calls interleave; in the local-only build localApi.addXp runs from
   loadStore to saveStore without an await *)

\* getUserId(), then .from("profiles").select("xp, level").eq("id", userId)
XpSelect(c, amount) ==
  /\ isRemote(env)
  /\ calls[c].pc = "idle"
  /\ LET pi == findIndexById(db.profiles, db.session)
         currentXp == IF pi = 0 THEN 0 ELSE db.profiles[pi].xp
     IN IF db.session = Undefined
        THEN /\ ret' = [op |-> "addXp", target |-> amount, args |-> <<>>,
                        out |-> Ok(zeroProfile), was |-> zeroProfile]
             /\ UNCHANGED calls
        ELSE /\ Max(0, currentXp + amount) <= MaxXp * XpUnit
             /\ calls' = [calls EXCEPT ![c] =
                            [pc |-> "update", op |-> "addXp", amount |-> amount,
                             userId |-> db.session, currentXp |-> currentXp]]
             /\ UNCHANGED ret
  /\ UNCHANGED <<storage, idCount, streak, env, db, app>>

\* .from("profiles").update({ xp: newXp, level: newLevel }).eq("id", userId);
\* the policy "profiles read/write" shows a user their own row only
XpUpdate(c) ==
  /\ calls[c].pc = "update"
  /\ LET k == calls[c]
         pi == findIndexById(db.profiles, k.userId)
         newXp == Max(0, k.currentXp + k.amount)
         newLevel == levelForXp(newXp)
     IN /\ db' = IF pi # 0 /\ db.session = k.userId
                 THEN [db EXCEPT !.profiles[pi].xp = newXp,
                                 !.profiles[pi].level = newLevel]
                 ELSE db
        /\ ret' = [op |-> "addXp", target |-> k.amount, args |-> <<>>,
                   out |-> Ok([xp |-> newXp, level |-> newLevel,
                               avatarStage |-> avatarForLevel(newLevel)]),
                   was |-> [xp |-> k.currentXp, level |-> levelForXp(k.currentXp),
                            avatarStage |-> avatarForLevel(levelForXp(k.currentXp))]]
        /\ calls' = [calls EXCEPT ![c] = NoCall]
  /\ UNCHANGED <<storage, idCount, streak, env, app>>

\* dataApi.addXp served by the local store
FacadeAddXp(amount) ==
  LET r == dataApi_addXp(env, storage, db, amount)
  IN /\ ~isRemote(env)
     /\ r.result.value.xp <= MaxXp * XpUnit
     /\ storage' = r.storage
     /\ db' = r.db
     /\ ret' = [op |-> "addXp", target |-> amount, args |-> <<>>, out |-> r.result,
                was |-> dataApi_getProfile(env, storage, db).result.value]
     /\ UNCHANGED <<idCount, streak, env, calls, app>>

----------------------------------------------------------------------------
(* SpecXpRace: student u1, signed in, in the local-only build or against
   Supabase; addXp calls with grants and deductions, in Supabase up to
   MaxCalls of them in flight at once *)

XpAmounts == {XpUnit, 3 * XpUnit, -XpUnit}

InitXpRace ==
  /\ env \in {ForceLocal, Remote}
  /\ \E staff \in {Staffed(env)} :
     \E student \in {dataApi_loginUser(env, staff.storage, staff.db, "a@x", "p1")} :
       /\ storage = student.storage
       /\ db = student.db
  /\ idCount = 0
  /\ ret = NoRet
  /\ streak = NoStreak
  /\ calls = NoCalls
  /\ app = NoApp

NextXpRace ==
  \/ \E amount \in XpAmounts : FacadeAddXp(amount)
  \/ \E c \in 1..MaxCalls, amount \in XpAmounts : XpSelect(c, amount)
  \/ \E c \in 1..MaxCalls : XpUpdate(c)

SpecXpRace == InitXpRace /\ [][NextXpRace]_vars

\* xp after addXp(amount) on xp
xpAfter(xp, amount) == Max(0, xp + amount)

\* the profile getProfile() gives in the state
storedProfile(e, raw, d) == dataApi_getProfile(e, raw, d).result.value

\* C23: the stored level is the floor of the stored xp, an addXp of the local
\* store leaves xp at Max(0, xp + amount), and when an addXp(b) writes right
\* after an addXp(a) that read the same xp as it did, the stored xp is that of
\* the two amounts applied one after the other in one of the two orders.
AddXpAtomic ==
  [][/\ storedProfile(env', storage', db').level =
          levelForXp(storedProfile(env', storage', db').xp)
     /\ \A amount \in XpAmounts :
          FacadeAddXp(amount) =>
            storedProfile(env', storage', db').xp =
              xpAfter(storedProfile(env, storage, db).xp, amount)
     /\ \A c \in 1..MaxCalls :
          (/\ isRemote(env)
           /\ calls[c].pc = "update"
           /\ ret.op = "addXp"
           /\ ret.was.xp = calls[c].currentXp
           /\ storedProfile(env, storage, db).xp = ret.out.value.xp
           /\ XpUpdate(c)) =>
            storedProfile(env', storage', db').xp \in
              {xpAfter(xpAfter(ret.was.xp, ret.target), calls[c].amount),
               xpAfter(xpAfter(ret.was.xp, calls[c].amount), ret.target)}]_vars

----------------------------------------------------------------------------
(* C24: no operation of the local store loses what another one stored *)

\* the questions of `old`, but for those of `goneQ`, and their answers, but
\* for those of `goneA`, are in `new`
postsKept(old, new, goneQ, goneA) ==
  /\ \A id \in questionIds(old) \ goneQ :
       /\ id \in questionIds(new)
       /\ questionById(new, id).text = questionById(old, id).text
       /\ questionById(new, id).status = questionById(old, id).status
  /\ \A a \in allAnswers(old) :
       (a.questionId \notin goneQ /\ a.id \notin goneA) => a.id \in allAnswerIds(new)

\* the reaction rows of `old`, but for those on `goneQ` and `goneA` and for
\* the rows `toggled`, are in `new`, as many times
rowsKept(old, new, goneQ, goneA, toggled) ==
  /\ \A r \in DOMAIN old.questionReactions :
       (r.questionId \notin goneQ /\ r \notin toggled) =>
         CopiesIn(r, new.questionReactions) = CopiesIn(r, old.questionReactions)
  /\ \A r \in DOMAIN old.answerReactions :
       (r.answerId \notin goneA /\ r \notin toggled) =>
         CopiesIn(r, new.answerReactions) = CopiesIn(r, old.answerReactions)

\* C24: the operations of the local store run from loadStore to saveStore in
\* one piece, so in whatever order they are invoked each of them adds its
\* effect to the document the others left: the stored document after a step
\* holds what the step made and everything stored before that the step did
\* not itself remove.
LoadMutateSaveUnit ==
  [][LET old == Store
         new == loadStore(storage')
     IN /\ \A room \in RoomIds :
             CreateQuestion(room, "t1", "u1") =>
               /\ postsKept(old, new, {}, {}) /\ rowsKept(old, new, {}, {}, {})
               /\ questionIds(new) = questionIds(old) \cup {idCount'}
        /\ \A q \in Ids :
             (CreateAnswer(q, "t1", "student", "u2") /\ ret'.out.kind = "ok") =>
               /\ postsKept(old, new, {}, {}) /\ rowsKept(old, new, {}, {}, {})
               /\ allAnswerIds(new) = allAnswerIds(old) \cup {idCount'}
               /\ questionIds(new) = questionIds(old)
        /\ \A q \in Ids, t \in Types, u \in Users :
             (AddQuestionReaction(q, t, u) /\ q \in questionIds(old)) =>
               /\ postsKept(old, new, {}, {})
               /\ rowsKept(old, new, {}, {}, {qRow(q, u, t)})
               /\ BagIn(qRow(q, u, t), new.questionReactions) =
                    ~BagIn(qRow(q, u, t), old.questionReactions)
               /\ questionIds(new) = questionIds(old)
               /\ allAnswerIds(new) = allAnswerIds(old)
        /\ \A a \in Ids, t \in Types, u \in Users :
             (AddAnswerReaction(a, t, u) /\ a \in allAnswerIds(old)) =>
               /\ postsKept(old, new, {}, {})
               /\ rowsKept(old, new, {}, {}, {aRow(a, u, t)})
               /\ BagIn(aRow(a, u, t), new.answerReactions) =
                    ~BagIn(aRow(a, u, t), old.answerReactions)
               /\ questionIds(new) = questionIds(old)
               /\ allAnswerIds(new) = allAnswerIds(old)
        /\ \A q \in Ids :
             (DeleteQuestion(q) /\ q \in questionIds(old)) =>
               /\ postsKept(old, new, {q}, answerIds(questionById(old, q)))
               /\ rowsKept(old, new, {q}, answerIds(questionById(old, q)), {})
               /\ questionIds(new) = questionIds(old) \ {q}
        /\ \A a \in Ids :
             (DeleteAnswer(a) /\ a \in allAnswerIds(old)) =>
               /\ postsKept(old, new, {}, {a})
               /\ rowsKept(old, new, {}, {a}, {})
               /\ allAnswerIds(new) = allAnswerIds(old) \ {a}
               /\ questionIds(new) = questionIds(old)]_vars

\* an answer was stored into a document that holds its question, stored
\* earlier, and reaction rows stored in between
LoadMutateSaveUnitWitness ==
  /\ ret.op = "createAnswer"
  /\ ret.out.kind = "ok"
  /\ Store.questionReactions # EmptyBag
  /\ Len(Store.questions) = 1
  /\ allAnswerIds(Store) = {2}

----------------------------------------------------------------------------
\* C25: a call of the facade is served by one backend: when Supabase is the
\* backend, no call changes the document of the local store.
OneBackendPerCall ==
  [][isRemote(env) => storage' = storage]_vars

----------------------------------------------------------------------------
(* SpecCascade: the local store with a question and an answer to it; more
   answers and a question are posted, both users like the question and the
   answers, and answers are deleted.  Ids are given in creation order, the
   two posts of the start below 1. *)

CascadeIds == (-1)..MaxIds

InitCascade ==
  /\ \E asked \in {localApi_createQuestion(Missing, -1, "r1", "t1", "u1")} :
     \E answered \in {localApi_createAnswer(asked.storage, 0, -1, "t1", "student", "u2")} :
       storage = answered.storage
  /\ idCount = 0
  /\ ret = NoRet
  /\ streak = NoStreak
  /\ LocalOnly

NextCascade ==
  \/ CreateQuestion("r1", "t1", "u1") /\ UNCHANGED idle
  \/ \E q \in CascadeIds : CreateAnswer(q, "t1", "student", "u2") /\ UNCHANGED idle
  \/ \E q \in CascadeIds, u \in Users : AddQuestionReaction(q, "like", u) /\ UNCHANGED idle
  \/ \E a \in CascadeIds, u \in Users : AddAnswerReaction(a, "like", u) /\ UNCHANGED idle
  \/ \E a \in CascadeIds : DeleteAnswer(a) /\ UNCHANGED idle

SpecCascade == InitCascade /\ [][NextCascade]_vars

\* the questions with the answer taken out of its parent's list
questionsWithout(questions, answerId) ==
  LET other(answer) == answer.id # answerId
  IN [i \in 1..Len(questions) |->
        [questions[i] EXCEPT !.answers = SelectSeq(@, other)]]

\* C26: deleteAnswer(a) of an answer in the store returns true and leaves no
\* answer a under any question and no answerReactions row of a, while the
\* parent question, the other answers, their reactions, the questionReactions
\* and the rest of the document stay as they were; deleteAnswer of an id of no
\* answer returns false and leaves the document as it was.
DeleteAnswerCascade ==
  [][\A a \in CascadeIds :
       DeleteAnswer(a) =>
         LET old == Store
             new == loadStore(storage')
         IN IF a \in allAnswerIds(old)
            THEN /\ ret'.out = Ok(TRUE)
                 /\ a \notin allAnswerIds(new)
                 /\ \A r \in DOMAIN new.answerReactions : r.answerId # a
                 /\ new.questions = questionsWithout(old.questions, a)
                 /\ \A r \in DOMAIN old.answerReactions \cup DOMAIN new.answerReactions :
                      r.answerId # a =>
                        CopiesIn(r, new.answerReactions) = CopiesIn(r, old.answerReactions)
                 /\ new.questionReactions = old.questionReactions
                 /\ [new EXCEPT !.questions = <<>>, !.answerReactions = EmptyBag] =
                      [old EXCEPT !.questions = <<>>, !.answerReactions = EmptyBag]
            ELSE /\ ret'.out = Ok(FALSE)
                 /\ storage' = storage]_vars

\* an answer with a reaction was deleted from a question that has a reaction
\* and keeps another answer with a reaction
DeleteAnswerCascadeWitness ==
  /\ ret.op = "deleteAnswer"
  /\ ret.out = Ok(TRUE)
  /\ ret.was.reactions.like > 0
  /\ Store.questionReactions # EmptyBag
  /\ \E other \in allAnswers(Store) : other.reactions.like > 0

\* deleteAnswer of an answer that was deleted before
DeleteAnswerMissingWitness ==
  /\ ret.op = "deleteAnswer"
  /\ ret.out = Ok(FALSE)
  /\ ret.target \in 0..idCount
  /\ Store.answerReactions # EmptyBag

----------------------------------------------------------------------------
(* SpecSession: the local-only build from an empty localStorage; accounts are
   registered and users log in with right and wrong passwords, log out and
   ask who is logged in *)

SessionEmails == {"a@x", "b@x"}

NextSession ==
  \/ \E email \in SessionEmails, password \in Passwords :
       FacadeRegisterUser("n1", "student", email, password)
  \/ \E email \in SessionEmails \cup {"A@x"}, password \in Passwords :
       FacadeLoginUser(email, password)
  \/ FacadeLogoutUser
  \/ FacadeGetCurrentUser

SpecSession == InitLocal /\ [][NextSession]_vars

\* the password stored for the account
passwordOf(store, userId) == store.users[findIndexById(store.users, userId)].password

\* C27: an account that exists becomes the current user only by a call that
\* gave that account's password; loginUser with an unknown email or a wrong
\* password returns null and leaves currentUserId as it was; after logoutUser
\* nobody is the current user and getCurrentUser returns null.
SessionIntegrity ==
  [][LET old == Store
         new == loadStore(storage')
     IN /\ (/\ new.currentUserId # old.currentUserId
            /\ findIndexById(old.users, new.currentUserId) # 0) =>
              \E email \in SessionEmails \cup {"A@x"} :
                \/ FacadeLoginUser(email, passwordOf(old, new.currentUserId))
                \/ FacadeRegisterUser("n1", "student", email,
                                      passwordOf(old, new.currentUserId))
        /\ \A email \in SessionEmails \cup {"A@x"}, password \in Passwords :
             (/\ FacadeLoginUser(email, password)
              /\ \/ findUserByEmail(old.users, email) = 0
                 \/ old.users[findUserByEmail(old.users, email)].password # password) =>
               (ret'.out = Ok(Null) /\ new.currentUserId = old.currentUserId)
        /\ FacadeLogoutUser => new.currentUserId = Undefined
        /\ (FacadeGetCurrentUser /\ old.currentUserId = Undefined) =>
             ret'.out = Ok(Null)]_vars

----------------------------------------------------------------------------
(* App.vue against a backend that answers late: a handler runs up to its
   next await and goes on when the answer is there; between the two the page
   takes other events.  A slot of `calls` holds a handler that waits.  A
   request is answered from the database as it is when the answer is taken.
   The watcher of room runs in the task that changed room, before any other
   event.  In handleJoinRoom the answers of joinRoom and listJoinedRooms are
   taken together, in handleReply the answer of addXp with the rest of the
   handler, in handleLogout the whole handler. *)

idleSlots(cs) == {c \in 1..MaxCalls : cs[c].pc = "idle"}

\* `copies` refreshQuestions() of one task got past `if (!room.value) return`
\* and wait for listQuestions(room.value.id)
listing(cs, c, roomId, copies) ==
  [cs EXCEPT ![c] = [pc |-> "listing", op |-> "refreshQuestions",
                     roomId |-> roomId, copies |-> copies]]

\* an event of the page that calls no backend, or the issue of a request
paged(op, page) ==
  /\ app' = page
  /\ ret' = [NoRet EXCEPT !.op = op]
  /\ UNCHANGED <<storage, idCount, streak, env, db>>

\* RoomHistory, which emits open, is rendered with a currentUser and no room;
\* the handler's refreshQuestions() and the watcher's wait together
HandleOpenRoom(c, roomId) ==
  /\ app.mounted
  /\ app.currentUser # NoUser
  /\ app.room = Undefined
  /\ \E i \in 1..Len(app.joinedRooms) : app.joinedRooms[i].id = roomId
  /\ c \in idleSlots(calls)
  /\ calls' = listing(calls, c, roomId, 2)
  /\ paged("handleOpenRoom", watchRoom(app, [app EXCEPT !.room = roomId]))

\* RoomView, which emits exit, is rendered with a currentUser and a room
ExitRoom ==
  /\ app.mounted
  /\ app.currentUser # NoUser
  /\ app.room # Undefined
  /\ paged("exitRoom", watchRoom(app, [app EXCEPT !.room = Undefined, !.questions = <<>>]))
  /\ UNCHANGED calls

\* the callback of setInterval, while an interval is set
Tick(c) ==
  /\ app.intervals > 0
  /\ c \in idleSlots(calls)
  /\ calls' = IF app.room # Undefined THEN listing(calls, c, app.room, 1) ELSE calls
  /\ paged("tick", app)

\* questions.value = await dataApi.listQuestions(...): the answer is there
RefreshResponse(c) ==
  LET r == dataApi_listQuestions(env, storage, db, calls[c].roomId)
  IN /\ calls[c].pc = "listing"
     /\ storage' = r.storage
     /\ db' = r.db
     /\ app' = IF r.result.kind = "throw"
               THEN [app EXCEPT !.error = r.result.value]
               ELSE [app EXCEPT !.questions = r.result.value]
     /\ calls' = IF calls[c].copies > 1
                 THEN [calls EXCEPT ![c].copies = @ - 1]
                 ELSE [calls EXCEPT ![c] = NoCall]
     /\ ret' = [NoRet EXCEPT !.op = "refreshQuestions", !.out = r.result]
     /\ UNCHANGED <<idCount, streak, env>>

\* RoomJoin, which emits join, is rendered with a currentUser and no room
JoinRequest(c, code) ==
  /\ app.mounted
  /\ app.currentUser # NoUser
  /\ app.room = Undefined
  /\ calls[c].pc = "idle"
  /\ calls' = [calls EXCEPT ![c] = [pc |-> "joining", op |-> "handleJoinRoom",
                                    code |-> code]]
  /\ paged("handleJoinRoom", app)

\* room.value = joined; joinedRooms.value = ...; await refreshQuestions()
JoinResponse(c) ==
  LET r1 == dataApi_joinRoom(env, storage, db, calls[c].code)
      r2 == dataApi_listJoinedRooms(env, r1.storage, r1.db)
      joined == [app EXCEPT !.room = r1.result.value.id, !.joinedRooms = r2.result.value]
      watcher == IF app.mounted /\ joined.room # app.room THEN 1 ELSE 0
  IN /\ calls[c].pc = "joining"
     /\ IF r1.result.kind = "throw" \/ r1.result.value = Null
        THEN /\ storage' = r1.storage
             /\ db' = r1.db
             /\ app' = [app EXCEPT !.error = IF r1.result.kind = "throw"
                                             THEN r1.result.value
                                             ELSE "room not found"]
             /\ calls' = [calls EXCEPT ![c] = NoCall]
        ELSE /\ storage' = r2.storage
             /\ db' = r2.db
             /\ app' = watchRoom(app, joined)
             /\ calls' = listing(calls, c, joined.room, 1 + watcher)
     /\ ret' = [NoRet EXCEPT !.op = "handleJoinRoom", !.out = r1.result]
     /\ UNCHANGED <<idCount, streak, env>>

\* RoomView, which emits reply on a question of the list
ReplyRequest(c, questionId) ==
  /\ app.mounted
  /\ app.currentUser # NoUser
  /\ app.room # Undefined
  /\ \E i \in 1..Len(app.questions) : app.questions[i].id = questionId
  /\ calls[c].pc = "idle"
  /\ calls' = [calls EXCEPT ![c] = [pc |-> "creating", op |-> "handleReply",
                                    questionId |-> questionId,
                                    roleValue |-> app.currentUser.role,
                                    ownerId |-> app.currentUser.id]]
  /\ paged("handleReply", app)

\* const answer = await dataApi.createAnswer(...): the answer is there
ReplyCreated(c) ==
  LET waiting == calls[c]
      r1 == dataApi_createAnswer(env, storage, db, idCount + 1, waiting.questionId, "t1",
                                 waiting.roleValue, waiting.ownerId)
  IN /\ waiting.pc = "creating"
     /\ storage' = r1.storage
     /\ db' = r1.db
     /\ IF r1.result.kind = "throw"
        THEN /\ app' = [app EXCEPT !.error = r1.result.value]
             /\ calls' = [calls EXCEPT ![c] = NoCall]
             /\ UNCHANGED idCount
        ELSE /\ idCount < MaxIds
             /\ idCount' = idCount + 1
             /\ calls' = [calls EXCEPT ![c] = [pc |-> "xp", op |-> "handleReply",
                                               questionId |-> waiting.questionId,
                                               answer |-> r1.result.value]]
             /\ UNCHANGED app
     /\ ret' = [NoRet EXCEPT !.op = "createAnswer", !.target = waiting.questionId,
                             !.out = r1.result]
     /\ UNCHANGED <<streak, env>>

\* if (currentUser.value) profile.value = await dataApi.addXp(1); then the
\* answer is put at the end of the question's answers
ReplyAppend(c) ==
  LET waiting == calls[c]
      r2 == dataApi_addXp(env, storage, db, XpUnit)
  IN /\ waiting.pc = "xp"
     /\ IF app.currentUser = NoUser
        THEN /\ app' = [app EXCEPT !.questions = withAnswer(@, waiting.questionId, waiting.answer)]
             /\ UNCHANGED <<storage, db>>
        ELSE /\ storage' = r2.storage
             /\ db' = r2.db
             /\ app' = IF r2.result.kind = "throw"
                       THEN [app EXCEPT !.error = r2.result.value]
                       ELSE [app EXCEPT
                               !.profile = r2.result.value,
                               !.questions = withAnswer(@, waiting.questionId, waiting.answer)]
     /\ calls' = [calls EXCEPT ![c] = NoCall]
     /\ ret' = [NoRet EXCEPT !.op = "handleReply", !.target = waiting.questionId]
     /\ UNCHANGED <<idCount, streak, env>>

\* onUnmounted(() => stopPolling()); the watcher of room stops with the component
Unmount ==
  /\ app.mounted
  /\ paged("unmount", stopPolling([app EXCEPT !.mounted = FALSE]))
  /\ UNCHANGED calls

----------------------------------------------------------------------------
(* SpecView: the Supabase build; the student u1 is signed in and a member of
   r1 and r2, each room holds a question, the one of r1 has an answer *)

InitView ==
  /\ env = Remote
  /\ \E staff \in {Staffed(env)} :
     \E teacher \in {dataApi_loginUser(env, staff.storage, staff.db, "c@x", "p1")} :
     \E roomed \in {dataApi_createRoom(env, teacher.storage, teacher.db,
                                       "r2", "K2", "n2", "ch1")} :
     \E student \in {dataApi_loginUser(env, roomed.storage, roomed.db, "a@x", "p1")} :
     \E in1 \in {dataApi_joinRoom(env, student.storage, student.db, "K1")} :
     \E in2 \in {dataApi_joinRoom(env, in1.storage, in1.db, "K2")} :
     \E first \in {dataApi_createQuestion(env, in2.storage, in2.db,
                                          -2, "r2", "t1", "u1")} :
     \E second \in {dataApi_createQuestion(env, first.storage, first.db,
                                           -1, "r1", "t1", "u1")} :
     \E answered \in {dataApi_createAnswer(env, second.storage, second.db,
                                           0, -1, "t1", "student", "u1")} :
     \E rooms \in {dataApi_listJoinedRooms(env, answered.storage, answered.db)} :
       /\ storage = answered.storage
       /\ db = answered.db
       /\ app = [NoApp EXCEPT !.currentUser = student.result.value,
                              !.joinedRooms = rooms.result.value]
  /\ idCount = 0
  /\ ret = NoRet
  /\ streak = NoStreak
  /\ calls = NoCalls

NextView ==
  \/ \E c \in 1..MaxCalls, roomId \in {"r1", "r2"} : HandleOpenRoom(c, roomId)
  \/ ExitRoom
  \/ \E c \in 1..MaxCalls : Tick(c)
  \/ \E c \in 1..MaxCalls : RefreshResponse(c)
  \/ \E c \in 1..MaxCalls, code \in RoomCodes : JoinRequest(c, code)
  \/ \E c \in 1..MaxCalls : JoinResponse(c)
  \/ \E c \in 1..MaxCalls, q \in ListIds : ReplyRequest(c, q)
  \/ \E c \in 1..MaxCalls : ReplyCreated(c)
  \/ \E c \in 1..MaxCalls : ReplyAppend(c)
  \/ app.mounted /\ HandleLogout
  \/ Unmount

SpecView == InitView /\ [][NextView]_vars

\* the rooms of the questions held in the list of the page
listedRooms(page) == {page.questions[i].roomId : i \in 1..Len(page.questions)}

\* C28: every question held in the list of the page belongs to the room that
\* is open, and the list is empty while no room is open, whatever the order
\* in which refreshes complete and rooms are opened, left and logged out of
DisplayedListMatchesRoom ==
  IF app.room = Undefined
  THEN app.questions = <<>>
  ELSE listedRooms(app) \subseteq {app.room}

\* C29: the answers the page holds for a question never contain the same
\* answer id twice, whatever the order in which handleReply and the refreshes
\* complete
NoDuplicateAnswerShown ==
  \A i \in 1..Len(app.questions) :
    \A j \in 1..Len(app.questions[i].answers), k \in 1..Len(app.questions[i].answers) :
      app.questions[i].answers[j].id = app.questions[i].answers[k].id => j = k

\* the step is a run of the interval's callback
ticked == ret'.op = "tick"

\* C30: at most one polling interval is set; one is set whenever the mounted
\* page has a room open, none once the room is closed or the component is
\* unmounted; and a run of the interval's callback issues a refresh only for
\* the room that is open at that moment
PollingTimer ==
  /\ [](/\ app.intervals <= 1
        /\ app.mounted /\ app.room # Undefined => app.intervals = 1
        /\ app.room = Undefined \/ ~app.mounted => app.intervals = 0)
  /\ [][ticked /\ calls' # calls =>
          /\ app.room # Undefined
          /\ \E c \in idleSlots(calls) : calls' = listing(calls, c, app.room, 1)]_vars

\* the interval's callback has just issued a refresh for the open room, after
\* the room was reached by a join that completed while another room was open
PollingTimerWitness ==
  /\ ret.op = "tick"
  /\ app.room = "r1"
  /\ app.intervals = 1
  /\ \E c \in 1..MaxCalls : calls[c] = [pc |-> "listing", op |-> "refreshQuestions",
                                         roomId |-> "r1", copies |-> 1]
  /\ \E c \in 1..MaxCalls : calls[c].pc = "listing" /\ calls[c].roomId = "r2"
====
